---- MODULE Spec2Model ----
(***************************************************************************)
(* A model of powdr's asm_to_pil crate: ROM generation (romgen.rs) and the *)
(* lowering of a machine and its ROM to PIL (vm_to_constrained.rs).        *)
(*                                                                         *)
(* Values of the syntax tree are records tagged the way the Rust enums are *)
(* (Expression, FunctionStatement, PilStatement); Option<T> is a sequence  *)
(* of length at most one (<<>> is None, <<v>> is Some(v)); Vec<T> is a     *)
(* sequence; a BTreeMap is kept as a sequence sorted by key.               *)
(***************************************************************************)
EXTENDS Integers, Sequences, FiniteSets, TLC

(***************************************************************************)
(* Bounds of the checked input space.                                      *)
(***************************************************************************)
\* at most this many functions in a machine's callable map
MaxFunctions == 2
\* at most this many instruction batches before the return of a function
MaxBatches == 2
\* the field the polynomials are over: the integers modulo this number
Modulus == 101

VARIABLES
    input,      \* the machine handed to the pipeline
    machine,    \* the machine as transformed so far
    rom,        \* Option<Rom>: the ROM returned by generate_machine_rom
    stage,      \* "parsed", "rom_generated", "converted" or "aborted"
    panic,      \* the message of the panic that aborted the invocation, or ""
    hashSeed,   \* the RandomState the std HashMaps of this invocation draw
    run,        \* 1 for the first invocation on input, 2 for the repeated one
    previous,   \* Option<(machine, rom, stage)>: the outcome of invocation 1
    call,       \* Option<call>: a method of the converter called on its own
    returned    \* Option<result>: what the call has returned

vars == <<input, machine, rom, stage, panic, hashSeed, run, previous,
          call, returned>>

(***************************************************************************)
(* Generic helpers.                                                        *)
(***************************************************************************)
None == <<>>

Some(v) == <<v>>

IsSome(o) == Len(o) = 1

\* Iterator::collect into a Vec: the sequence as a tuple of its elements
Collect(f) == f \o <<>>

SeqMap(Op(_), s) == Collect([i \in 1..Len(s) |-> Op(s[i])])

Range(s) == {s[i] : i \in 1..Len(s)}

RECURSIVE Flatten(_)
Flatten(ss) == IF ss = <<>> THEN <<>> ELSE Head(ss) \o Flatten(Tail(ss))

RECURSIVE SumSeq(_)
SumSeq(s) == IF s = <<>> THEN 0 ELSE Head(s) + SumSeq(Tail(s))

MaxOf(S) == IF S = {} THEN 0 ELSE CHOOSE m \in S : \A x \in S : x <= m

Take(s, n) == SubSeq(s, 1, IF n < Len(s) THEN n ELSE Len(s))

Repeat(v, n) == Collect([i \in 1..n |-> v])

Reverse(s) == Collect([i \in 1..Len(s) |-> s[Len(s) + 1 - i]])

(***************************************************************************)
(* std::collections::HashMap: the entries [key, value] in the order in     *)
(* which the table holds them. That order is a function of the keys and of *)
(* the RandomState of the invocation, hashSeed; a lookup does not depend   *)
(* on it.                                                                  *)
(***************************************************************************)
hash_order(entries) == IF hashSeed = 0 THEN entries ELSE Reverse(entries)

\* a variant of hashmap_collect in which, of the entries with an equal key,
\* the one the table holds first is kept
hashmap_collect_unordered(entries) ==
    LET held == hash_order(entries)
    IN SelectSeq(
           Collect([i \in 1..Len(held) |->
               [key |-> held[i].key, value |-> held[i].value,
                last |-> \A j \in 1..(i - 1) : held[j].key # held[i].key]]),
           LAMBDA e : e.last)

\* HashMap::insert on each entry in turn: an equal key keeps one entry, with
\* the value inserted last
hashmap_collect(entries) ==
    hash_order(SelectSeq(
        Collect([i \in 1..Len(entries) |->
            [key |-> entries[i].key, value |-> entries[i].value,
             last |-> \A j \in (i + 1)..Len(entries) : entries[j].key # entries[i].key]]),
        LAMBDA e : e.last))

hashmap_contains_key(map, key) == \E i \in 1..Len(map) : map[i].key = key

\* HashMap::get(key).unwrap()
hashmap_get(map, key) == map[CHOOSE i \in 1..Len(map) : map[i].key = key].value

(***************************************************************************)
(* The syntax tree: ast::parsed::Expression.                               *)
(***************************************************************************)
Reference(name) == [tag |-> "Reference", name |-> name]

Number(v) == [tag |-> "Number", value |-> v]

BinaryOperation(l, op, r) ==
    [tag |-> "BinaryOperation", left |-> l, op |-> op, right |-> r]

UnaryOperation(op, e) == [tag |-> "UnaryOperation", op |-> op, expr |-> e]

FunctionCall(f, args) == [tag |-> "FunctionCall", function |-> f, arguments |-> args]

FreeInput(e) == [tag |-> "FreeInput", expr |-> e]

direct_reference(name) == Reference(name)

next_reference(name) == UnaryOperation("Next", Reference(name))

(***************************************************************************)
(* ast::asm_analysis::FunctionStatement.                                   *)
(***************************************************************************)
\* lhs_with_reg is a sequence of <<write register, assignment register>>
AssignmentStatement(lhs_with_reg, rhs) ==
    [kind |-> "Assignment", lhs_with_reg |-> lhs_with_reg, rhs |-> rhs]

InstructionStatement(instruction, inputs) ==
    [kind |-> "Instruction", instruction |-> instruction, inputs |-> inputs]

LabelStatement(name) == [kind |-> "Label", name |-> name]

DebugDirective(d) == [kind |-> "DebugDirective", directive |-> d]

Return(values) == [kind |-> "Return", values |-> values]

\* Batch::from(statements): no reason yet
Batch(statements) == [statements |-> statements, reason |-> None]

\* Batch::reason / Batch::set_reason with IncompatibleSet::from(one reason)
WithReason(batch, incompatible) ==
    [batch EXCEPT !.reason = Some({incompatible})]

(***************************************************************************)
(* ast::parsed::PilStatement.                                              *)
(***************************************************************************)
PolynomialIdentity(e) == [kind |-> "PolynomialIdentity", expr |-> e]

PolynomialDefinition(name, e) ==
    [kind |-> "PolynomialDefinition", name |-> name, expr |-> e]

PolynomialConstantDefinition(name, def) ==
    [kind |-> "PolynomialConstantDefinition", name |-> name, def |-> def]

PolynomialCommitDeclaration(name, def) ==
    [kind |-> "PolynomialCommitDeclaration", name |-> name, def |-> def]

SelectedExpressions(selector, expressions) ==
    [selector |-> selector, expressions |-> expressions]

PlookupIdentity(left, right) ==
    [kind |-> "PlookupIdentity", left |-> left, right |-> right]

PermutationIdentity(left, right) ==
    [kind |-> "PermutationIdentity", left |-> left, right |-> right]

witness_column(name, def) == PolynomialCommitDeclaration(name, def)

(***************************************************************************)
(* Machine items.                                                          *)
(***************************************************************************)
RegisterDeclaration(name, ty) == [name |-> name, ty |-> ty]

Param(name, ty) == [name |-> name, ty |-> ty]

LocalBody(statements) == [kind |-> "Local", statements |-> statements]

CallableRef(to) == [kind |-> "CallableRef", to |-> to]

\* inputs: Seq(Param); outputs: Option<Seq(Param)>
InstructionDefinition(name, inputs, outputs, body) ==
    [name |-> name, inputs |-> inputs, outputs |-> outputs, body |-> body]

\* inputs: Seq(Param); outputs: Option<Seq(Param)>; body: Seq(Batch)
FunctionSymbol(inputs, outputs, body) ==
    [kind |-> "Function", inputs |-> inputs, outputs |-> outputs, body |-> body]

OperationSymbol(id, inputs, outputs) ==
    [kind |-> "Operation", start |-> 0, id |-> id,
     inputs |-> inputs, outputs |-> outputs]

Callable(name, symbol) == [name |-> name, symbol |-> symbol]

has_pc(m) == \E i \in 1..Len(m.registers) : m.registers[i].ty = "Pc"

pc(m) ==
    LET i == CHOOSE i \in 1..Len(m.registers) :
                 /\ m.registers[i].ty = "Pc"
                 /\ \A j \in 1..(i - 1) : m.registers[j].ty # "Pc"
    IN m.registers[i].name

machine_write_register_names(m) ==
    SeqMap(LAMBDA r : r.name, SelectSeq(m.registers, LAMBDA r : r.ty = "Write"))

functions(m) ==
    SeqMap(LAMBDA c : c.symbol,
           SelectSeq(m.callable, LAMBDA c : c.symbol.kind = "Function"))

operations(m) ==
    SeqMap(LAMBDA c : c.symbol,
           SelectSeq(m.callable, LAMBDA c : c.symbol.kind = "Operation"))

is_only_functions(callable) ==
    \A i \in 1..Len(callable) : callable[i].symbol.kind = "Function"

\* params.outputs.as_ref().map(|o| o.params.len()).unwrap_or(0)
OutputLen(symbol) == IF IsSome(symbol.outputs) THEN Len(symbol.outputs[1]) ELSE 0

(***************************************************************************)
(* romgen.rs                                                               *)
(***************************************************************************)
RESET_NAME == "_reset"

input_at(i) == "_input_" \o ToString(i)

output_at(i) == "_output_" \o ToString(i)

\* the HashMap collected from (param.name, input_at(index))
input_substitution(inputs) ==
    hashmap_collect(Collect([i \in 1..Len(inputs) |->
        [key |-> inputs[i].name, value |-> input_at(i - 1)]]))

\* the closure `substitute` applied to one node
substitute(e, substitution) ==
    IF e.tag = "Reference" /\ hashmap_contains_key(substitution, e.name)
    THEN Reference(hashmap_get(substitution, e.name))
    ELSE e

\* pre_visit_expressions_mut on an expression: the node, then its children
RECURSIVE pre_visit_substitute(_, _)
pre_visit_substitute(e, substitution) ==
    LET v == substitute(e, substitution) IN
    CASE v.tag = "BinaryOperation" ->
            [v EXCEPT !.left = pre_visit_substitute(v.left, substitution),
                      !.right = pre_visit_substitute(v.right, substitution)]
      [] v.tag = "UnaryOperation" ->
            [v EXCEPT !.expr = pre_visit_substitute(v.expr, substitution)]
      [] v.tag = "FreeInput" ->
            [v EXCEPT !.expr = pre_visit_substitute(v.expr, substitution)]
      [] v.tag = "FunctionCall" ->
            [v EXCEPT !.function = pre_visit_substitute(v.function, substitution),
                      !.arguments = Collect([i \in 1..Len(v.arguments) |->
                          pre_visit_substitute(v.arguments[i], substitution)])]
      [] OTHER -> v

\* a variant of substitute_name_in_statement_expressions which also renames
\* the registers on the left-hand side of an assignment
substitute_name_in_statement(s, substitution) ==
    LET renamed(n) == IF hashmap_contains_key(substitution, n)
                      THEN hashmap_get(substitution, n) ELSE n
    IN CASE s.kind = "Assignment" ->
               [s EXCEPT !.rhs = pre_visit_substitute(s.rhs, substitution),
                         !.lhs_with_reg = Collect([i \in 1..Len(s.lhs_with_reg) |->
                             <<renamed(s.lhs_with_reg[i][1]), s.lhs_with_reg[i][2]>>])]
         [] s.kind = "Instruction" ->
               [s EXCEPT !.inputs = Collect([i \in 1..Len(s.inputs) |->
                             pre_visit_substitute(s.inputs[i], substitution)])]
         [] s.kind = "Return" ->
               [s EXCEPT !.values = Collect([i \in 1..Len(s.values) |->
                             pre_visit_substitute(s.values[i], substitution)])]
         [] OTHER -> s

\* the expressions a FunctionStatement offers to a visitor: the right-hand
\* side of an assignment, the inputs of an instruction, the values of a return
substitute_name_in_statement_expressions(s, substitution) ==
    CASE s.kind = "Assignment" ->
            [s EXCEPT !.rhs = pre_visit_substitute(s.rhs, substitution)]
      [] s.kind = "Instruction" ->
            [s EXCEPT !.inputs = Collect([i \in 1..Len(s.inputs) |->
                          pre_visit_substitute(s.inputs[i], substitution)])]
      [] s.kind = "Return" ->
            [s EXCEPT !.values = Collect([i \in 1..Len(s.values) |->
                          pre_visit_substitute(s.values[i], substitution)])]
      [] OTHER -> s

\* a variant of pad_return_arguments without the take(output_count)
pad_return_arguments_untruncated(s, output_count) ==
    IF s.kind = "Return"
    THEN [s EXCEPT !.values =
             @ \o Repeat(Number(0), IF Len(@) < output_count
                                    THEN output_count - Len(@) ELSE 0)]
    ELSE s

pad_return_arguments(s, output_count) ==
    IF s.kind = "Return"
    THEN [s EXCEPT !.values =
             Take(s.values \o Repeat(Number(0), output_count), output_count)]
    ELSE s

embedded_instructions(m) ==
    << InstructionDefinition("_jump_to_operation", <<>>, None,
           LocalBody(<<PolynomialIdentity(BinaryOperation(
               next_reference(pc(m)), "Sub", Reference("_operation_id")))>>)),
       InstructionDefinition(RESET_NAME, <<>>, None,
           LocalBody(SeqMap(
               LAMBDA w : PolynomialIdentity(BinaryOperation(
                              next_reference(w), "Sub", Number(0))),
               machine_write_register_names(m)))),
       InstructionDefinition("_loop", <<>>, None,
           LocalBody(<<PolynomialIdentity(BinaryOperation(
               next_reference(pc(m)), "Sub", Reference(pc(m))))>>)) >>

\* a variant of the dispatcher in one batch
dispatcher_in_one_batch ==
    << WithReason(Batch(<<LabelStatement("_start"),
                          InstructionStatement(RESET_NAME, <<>>),
                          InstructionStatement("_jump_to_operation", <<>>)>>),
                  "Label") >>

dispatcher ==
    << WithReason(Batch(<<LabelStatement("_start"),
                          InstructionStatement(RESET_NAME, <<>>)>>),
                  "Unimplemented"),
       WithReason(Batch(<<InstructionStatement("_jump_to_operation", <<>>)>>),
                  "Label") >>

\* a variant of the sink whose batch ends for a label
sink_before_label ==
    << WithReason(Batch(<<LabelStatement("_sink"), InstructionStatement("_loop", <<>>)>>),
                  "Label") >>

sink == << Batch(<<LabelStatement("_sink"), InstructionStatement("_loop", <<>>)>>) >>

input_count(m) ==
    MaxOf({Len(functions(m)[i].inputs) : i \in 1..Len(functions(m))})

\* a variant of output_count: the outputs of all functions together
output_count_total(m) ==
    SumSeq(Collect([i \in 1..Len(functions(m)) |-> OutputLen(functions(m)[i])]))

output_count(m) ==
    MaxOf({OutputLen(functions(m)[i]) : i \in 1..Len(functions(m))})

synthetic_registers(m) ==
    Collect([i \in 1..input_count(m) |-> RegisterDeclaration(input_at(i - 1), "ReadOnly")])
    \o Collect([i \in 1..output_count(m) |-> RegisterDeclaration(output_at(i - 1), "Assignment")])

\* the statements of a batch after substitution and padding
rewrite_batch(batch, substitution, outputs) ==
    [batch EXCEPT !.statements = Collect([i \in 1..Len(batch.statements) |->
        pad_return_arguments(
            substitute_name_in_statement_expressions(batch.statements[i], substitution),
            outputs)])]

\* the batches one function contributes to the ROM
function_batches(name, function, outputs) ==
    LET label_first(batches) ==
            [batches EXCEPT ![1].statements = <<LabelStatement("_" \o name)>> \o @]
        reason_last(batches) ==
            [batches EXCEPT ![Len(batches)] = WithReason(@, "Label")]
    IN reason_last(label_first(Collect([i \in 1..Len(function.body) |->
           rewrite_batch(function.body[i],
                         input_substitution(function.inputs), outputs)])))

\* the operation that replaces a function
operation_of(function, operation_id) ==
    OperationSymbol(
        Some(operation_id),
        Collect([i \in 1..Len(function.inputs) |-> Param(input_at(i - 1), None)]),
        IF IsSome(function.outputs)
        THEN Some(Collect([i \in 1..Len(function.outputs[1]) |-> Param(output_at(i - 1), None)]))
        ELSE None)

\* a variant of the operation id taken once, before the loop over the callables
first_operation_id(batches) == Len(dispatcher)

\* let operation_id = T::from(rom.len() as u64)
current_operation_id(batches) == Len(batches)

\* the loop over machine.callable.iter_mut(): acc is [rom, callable, abort]
RECURSIVE lower_callables(_, _, _)
lower_callables(callable, acc, outputs) ==
    IF callable = <<>> \/ acc.abort # "" THEN acc
    ELSE
        LET c == Head(callable)
        IN IF c.symbol.body = <<>>
           THEN [acc EXCEPT !.abort =
                    "function should have at least one statement as it must return"]
           ELSE lower_callables(
                    Tail(callable),
                    [rom |-> acc.rom \o function_batches(c.name, c.symbol, outputs),
                     callable |-> Append(acc.callable,
                         Callable(c.name, operation_of(c.symbol, current_operation_id(acc.rom)))),
                     abort |-> ""],
                    outputs)

\* generate_machine_rom: [machine, rom, abort]
\* the length of the ROM with the sink batch
sink_id_with_sink(rom_before_sink) == Len(rom_before_sink) + 1

\* let sink_id = T::from(rom.len() as u64), taken before the sink is added
sink_id(rom_before_sink) == Len(rom_before_sink)

generate_machine_rom(m) ==
    IF ~has_pc(m) THEN [machine |-> m, rom |-> None, abort |-> ""]
    ELSE IF ~is_only_functions(m.callable)
    THEN [machine |-> m, rom |-> None,
          abort |-> "assertion failed: machine.callable.is_only_functions()"]
    ELSE
        LET finish(lowered) ==
                IF lowered.abort # ""
                THEN [machine |-> m, rom |-> None, abort |-> lowered.abort]
                ELSE [machine |->
                         [m EXCEPT
                             !.instructions = @ \o embedded_instructions(m),
                             !.registers = @ \o synthetic_registers(m),
                             !.callable = lowered.callable,
                             !.pil = Append(@, witness_column("_operation_id",
                                         Some([kind |-> "Query",
                                               query |-> <<"hint", sink_id(lowered.rom)>>]))),
                             !.operation_id = Some("_operation_id")],
                      rom |-> Some(lowered.rom \o sink),
                      abort |-> ""]
        IN finish(lower_callables(
                      m.callable,
                      [rom |-> dispatcher, callable |-> <<>>, abort |-> ""],
                      output_count(m)))

(***************************************************************************)
(* Ordered maps. String's Ord compares bytes; the names of this model are  *)
(* made of the characters below, listed in byte order.                     *)
(***************************************************************************)
Alphabet == "0123456789ABCDEFGHIJKLMNOPQRSTUVWXYZ_abcdefghijklmnopqrstuvwxyz"

CharCode(c) == CHOOSE i \in 1..Len(Alphabet) : SubSeq(Alphabet, i, i) = c

\* a < b for strings: at the first position where they differ the byte of a
\* is smaller, or a is a proper prefix of b
StrLess(a, b) ==
    LET n == IF Len(a) < Len(b) THEN Len(a) ELSE Len(b)
        differ == {i \in 1..n : SubSeq(a, i, i) # SubSeq(b, i, i)}
    IN IF differ = {} THEN Len(a) < Len(b)
       ELSE LET i == CHOOSE i \in differ : \A j \in differ : i <= j
            IN CharCode(SubSeq(a, i, i)) < CharCode(SubSeq(b, i, i))

\* BTreeMap<String, V> as a sequence of [key, value] in increasing key order
btree_contains(map, key) == \E i \in 1..Len(map) : map[i].key = key

btree_get(map, key) == (CHOOSE i \in 1..Len(map) : map[i].key = key)

btree_insert(map, key, value) ==
    IF btree_contains(map, key)
    THEN [map EXCEPT ![btree_get(map, key)].value = value]
    ELSE LET below == Cardinality({i \in 1..Len(map) : StrLess(map[i].key, key)})
         IN SubSeq(map, 1, below) \o <<[key |-> key, value |-> value]>>
            \o SubSeq(map, below + 1, Len(map))

\* collect::<BTreeMap<_, _>>(): of entries with equal keys the last one stays
btree_from(entries) ==
    LET n == Len(entries)
        kept == {i \in 1..n : \A j \in (i + 1)..n : entries[j].key # entries[i].key}
        rank == Collect([i \in 1..n |->
                    1 + Cardinality({j \in kept :
                                        StrLess(entries[j].key, entries[i].key)})])
    IN Collect([p \in 1..Cardinality(kept) |->
                   entries[CHOOSE i \in kept : rank[i] = p]])

btree_keys(map) == Collect([i \in 1..Len(map) |-> map[i].key])

\* BTreeSet::iter: the elements in ascending order
btree_set_iter(set) ==
    Collect([p \in 1..Cardinality(set) |->
        CHOOSE x \in set : Cardinality({y \in set : StrLess(y, x)}) = p - 1])

(***************************************************************************)
(* Expression arithmetic (the Add, Sub, Mul and Sum impls of Expression).  *)
(***************************************************************************)
ExprAdd(a, b) == BinaryOperation(a, "Add", b)

ExprSub(a, b) == BinaryOperation(a, "Sub", b)

ExprMul(a, b) == BinaryOperation(a, "Mul", b)

RECURSIVE ExprSum(_)
ExprSum(es) ==
    IF es = <<>> THEN Number(0)
    ELSE IF Len(es) = 1 THEN es[1]
    ELSE ExprAdd(ExprSum(SubSeq(es, 1, Len(es) - 1)), es[Len(es)])

(***************************************************************************)
(* vm_to_constrained.rs: the converter.                                    *)
(***************************************************************************)
RETURN_NAME == "return"

instruction_flag(name) == "instr_" \o name

\* ASMPILConverter::with_output_count; abort is the panic message, if any
with_output_count(outputs) ==
    [pil |-> <<>>, pc_name |-> None, registers |-> <<>>, instructions |-> <<>>,
     code_lines |-> <<>>, line_lookup |-> <<>>, rom_constant_names |-> <<>>,
     output_count |-> outputs, abort |-> ""]

Register(conditioned_updates, default_update, ty) ==
    [conditioned_updates |-> conditioned_updates,
     default_update |-> default_update, ty |-> ty]

\* a variant of register_names_of that lists the names from the greatest to
\* the least
register_names_descending(self, ty) ==
    Reverse(btree_keys(SelectSeq(self.registers, LAMBDA e : e.value.ty = ty)))

register_names_of(self, ty) ==
    btree_keys(SelectSeq(self.registers, LAMBDA e : e.value.ty = ty))

assignment_register_names(self) == register_names_of(self, "Assignment")

write_register_names(self) == register_names_of(self, "Write")

pc_register_names(self) == register_names_of(self, "Pc")

read_only_register_names(self) == register_names_of(self, "ReadOnly")

\* a variant of create_witness_fixed_pair which puts the pair in front
create_witness_fixed_pair_in_front(self, name) ==
    [self EXCEPT
        !.pil = Append(@, witness_column(name, None)),
        !.line_lookup = <<<<name, "p_" \o name>>>> \o @,
        !.rom_constant_names = Append(@, "p_" \o name)]

create_witness_fixed_pair(self, name) ==
    [self EXCEPT
        !.pil = Append(@, witness_column(name, None)),
        !.line_lookup = Append(@, <<name, "p_" \o name>>),
        !.rom_constant_names = Append(@, "p_" \o name)]

RECURSIVE create_witness_fixed_pairs(_, _)
create_witness_fixed_pairs(self, names) ==
    IF names = <<>> \/ self.abort # "" THEN self
    ELSE create_witness_fixed_pairs(create_witness_fixed_pair(self, Head(names)),
                                    Tail(names))

handle_register_declaration(self, decl) ==
    LET name == decl.name
        assignment_regs == assignment_register_names(self)
        write_flags == Collect([i \in 1..Len(assignment_regs) |->
                           "reg_write_" \o assignment_regs[i] \o "_" \o name])
        s1 == CASE decl.ty = "Pc" ->
                     [self EXCEPT !.pc_name = Some(name),
                                  !.line_lookup = Append(@, <<name, "p_line">>)]
                [] decl.ty = "Write" -> create_witness_fixed_pairs(self, write_flags)
                [] OTHER -> self
        register ==
            CASE decl.ty = "Pc" ->
                     Register(<<>>, Some(ExprAdd(direct_reference(name), Number(1))), "Pc")
              [] decl.ty = "Assignment" -> Register(<<>>, None, "Assignment")
              [] decl.ty = "ReadOnly" ->
                     Register(<<>>, Some(direct_reference(name)), "ReadOnly")
              [] decl.ty = "Write" ->
                     Register(Collect([i \in 1..Len(assignment_regs) |->
                                  <<direct_reference(write_flags[i]),
                                    direct_reference(assignment_regs[i])>>]),
                              Some(direct_reference(name)), "Write")
    IN IF self.abort # "" THEN self
       ELSE IF decl.ty = "Pc" /\ self.pc_name # None
       THEN [self EXCEPT !.abort = "assertion failed: self.pc_name == None"]
       ELSE [s1 EXCEPT !.registers = btree_insert(@, name, register),
                       !.pil = Append(@, witness_column(name, None))]

\* extract_update: <<Option<column>, expression>>
extract_update(expr) ==
    IF expr.tag = "BinaryOperation" /\ expr.op = "Sub"
    THEN IF expr.left.tag = "UnaryOperation" /\ expr.left.op = "Next"
         THEN IF expr.left.expr.tag = "Reference"
              THEN <<Some(expr.left.expr.name), expr.right>>
              ELSE <<None, ExprSub(expr.left, expr.right)>>
         ELSE <<None, ExprSub(expr.left, expr.right)>>
    ELSE <<None, expr>>

\* linearize_rec: [counter, expr, pil (the definitions pushed), abort]
RECURSIVE linearize_rec(_, _, _)
linearize_rec(prefix, counter, expr) ==
    IF expr.tag = "BinaryOperation"
    THEN IF expr.op \in {"Add", "Sub", "Mul"}
         THEN LET l == linearize_rec(prefix, counter, expr.left)
                  r == linearize_rec(prefix, l.counter, expr.right)
                  intermediate_name ==
                      prefix \o (IF r.counter = 0 THEN "" ELSE "_" \o ToString(r.counter))
              IN IF l.abort # "" THEN l
                 ELSE IF r.abort # "" THEN r
                 ELSE IF expr.op = "Mul"
                 THEN [counter |-> r.counter + 1,
                       expr |-> direct_reference(intermediate_name),
                       pil |-> Append(l.pil \o r.pil,
                                 PolynomialDefinition(intermediate_name,
                                                      ExprMul(l.expr, r.expr))),
                       abort |-> ""]
                 ELSE [counter |-> r.counter,
                       expr |-> BinaryOperation(l.expr, expr.op, r.expr),
                       pil |-> l.pil \o r.pil,
                       abort |-> ""]
         ELSE [counter |-> counter, expr |-> expr, pil |-> <<>>,
               abort |-> "not implemented: " \o expr.op
                         \o " is not supported when linearizing"]
    ELSE [counter |-> counter, expr |-> expr, pil |-> <<>>, abort |-> ""]

\* a variant of linearize that starts the counter at 1
linearize_from_one(prefix, expr) == linearize_rec(prefix, 1, expr)

linearize(prefix, expr) == linearize_rec(prefix, 0, expr)

InputRegister(name) == [kind |-> "Register", name |-> name]

InputLiteral(name, literal) == [kind |-> "Literal", name |-> name, literal |-> literal]

Instruction(inputs, outputs) == [inputs |-> inputs, outputs |-> outputs]

literal_arg_names(instruction) ==
    SeqMap(LAMBDA i : i.name,
           SelectSeq(instruction.inputs, LAMBDA i : i.kind = "Literal"))

\* the classification of the input parameters of an instruction definition
classify_input(param) ==
    CASE param.ty = None -> InputRegister(param.name)
      [] param.ty = Some("label") -> InputLiteral(param.name, "Label")
      [] param.ty = Some("signed") -> InputLiteral(param.name, "SignedConstant")
      [] param.ty = Some("unsigned") -> InputLiteral(param.name, "UnsignedConstant")
      [] OTHER -> [kind |-> "unreachable", name |-> param.name]

\* post_visit_expressions_mut with the closure renaming literal parameters
RECURSIVE post_visit_rename(_, _)
post_visit_rename(e, substitutions) ==
    LET v == CASE e.tag = "BinaryOperation" ->
                    [e EXCEPT !.left = post_visit_rename(e.left, substitutions),
                              !.right = post_visit_rename(e.right, substitutions)]
               [] e.tag = "UnaryOperation" ->
                    [e EXCEPT !.expr = post_visit_rename(e.expr, substitutions)]
               [] e.tag = "FreeInput" ->
                    [e EXCEPT !.expr = post_visit_rename(e.expr, substitutions)]
               [] e.tag = "FunctionCall" ->
                    [e EXCEPT !.function = post_visit_rename(e.function, substitutions),
                              !.arguments = Collect([i \in 1..Len(e.arguments) |->
                                  post_visit_rename(e.arguments[i], substitutions)])]
               [] OTHER -> e
    IN IF v.tag = "Reference" /\ hashmap_contains_key(substitutions, v.name)
       THEN Reference(hashmap_get(substitutions, v.name))
       ELSE v

rename_selected(sel, substitutions) ==
    [selector |-> Collect([i \in 1..Len(sel.selector) |->
                      post_visit_rename(sel.selector[i], substitutions)]),
     expressions |-> Collect([i \in 1..Len(sel.expressions) |->
                      post_visit_rename(sel.expressions[i], substitutions)])]

rename_in_pil_statement(st, substitutions) ==
    CASE st.kind \in {"PolynomialIdentity", "PolynomialDefinition"} ->
            [st EXCEPT !.expr = post_visit_rename(st.expr, substitutions)]
      [] st.kind \in {"PlookupIdentity", "PermutationIdentity"} ->
            [st EXCEPT !.left = rename_selected(st.left, substitutions),
                       !.right = rename_selected(st.right, substitutions)]
      [] OTHER -> st

\* one statement of a local instruction body
handle_body_statement(self, flag, statement) ==
    IF self.abort # "" THEN self
    ELSE IF statement.kind = "PolynomialIdentity"
    THEN LET u == extract_update(statement.expr) IN
         IF IsSome(u[1])
         THEN LET var == u[1][1]
                  lin == linearize(flag \o "_" \o var \o "_update", u[2])
              IN IF lin.abort # "" THEN [self EXCEPT !.abort = lin.abort]
                 ELSE IF ~btree_contains(self.registers, var)
                 THEN [self EXCEPT !.pil = @ \o lin.pil,
                                   !.abort = "called Option::unwrap() on a None value"]
                 ELSE [self EXCEPT
                          !.pil = @ \o lin.pil,
                          !.registers[btree_get(self.registers, var)]
                              .value.conditioned_updates =
                                  Append(@, <<direct_reference(flag), lin.expr>>)]
         ELSE [self EXCEPT !.pil = Append(@,
                   PolynomialIdentity(ExprMul(direct_reference(flag), u[2])))]
    ELSE IF statement.kind \in {"PermutationIdentity", "PlookupIdentity"}
    THEN IF statement.left.selector # None
         THEN [self EXCEPT !.abort = "LHS selector not supported, could and-combine with instruction flag later."]
         ELSE [self EXCEPT !.pil = Append(@,
                   [statement EXCEPT !.left.selector = Some(direct_reference(flag))])]
    ELSE [self EXCEPT !.abort = "Invalid statement for instruction body"]

RECURSIVE handle_body(_, _, _)
handle_body(self, flag, body) ==
    IF body = <<>> \/ self.abort # "" THEN self
    ELSE handle_body(handle_body_statement(self, flag, Head(body)), flag, Tail(body))

\* handle_instruction_def: [self, link], link an Option<LinkDefinitionStatement>
handle_instruction_def(self, s) ==
    LET flag == "instr_" \o s.name
        s1 == create_witness_fixed_pair(self, flag)
        inputs == SeqMap(classify_input, s.inputs)
        out_params == IF IsSome(s.outputs) THEN s.outputs[1] ELSE <<>>
        instruction == Instruction(inputs, SeqMap(LAMBDA q : q.name, out_params))
        literals == literal_arg_names(instruction)
        columns == Collect([i \in 1..Len(literals) |->
                       "instr_" \o s.name \o "_param_" \o literals[i]])
        substitutions ==
            hashmap_collect(Collect([i \in 1..Len(literals) |->
                [key |-> literals[i], value |-> columns[i]]]))
        body == Collect([i \in 1..Len(s.body.statements) |->
                    rename_in_pil_statement(s.body.statements[i], substitutions)])
        link == IF s.body.kind = "Local" THEN None
                ELSE Some([flag |-> direct_reference(flag),
                           inputs |-> s.inputs, outputs |-> s.outputs,
                           to |-> s.body.to])
        insert(s3) ==
            IF s3.abort # "" THEN [self |-> s3, link |-> None]
            ELSE [self |-> [s3 EXCEPT !.instructions =
                                btree_insert(@, s.name, instruction)],
                  link |-> link]
    IN IF self.abort # "" THEN [self |-> self, link |-> None]
       ELSE IF \E i \in 1..Len(inputs) : inputs[i].kind = "unreachable"
       THEN [self |-> [s1 EXCEPT !.abort = "internal error: entered unreachable code"],
             link |-> None]
       ELSE IF \E i \in 1..Len(out_params) : out_params[i].ty # None
       THEN [self |-> [s1 EXCEPT !.abort = "output must be a register"], link |-> None]
       ELSE IF s.body.kind = "Local"
       THEN insert(handle_body(create_witness_fixed_pairs(s1, columns), flag, body))
       ELSE insert(s1)

\* input.instructions.drain(..).filter_map(handle_instruction_def):
\* [self, links]
RECURSIVE handle_instruction_defs(_, _)
handle_instruction_defs(acc, defs) ==
    IF defs = <<>> \/ acc.self.abort # "" THEN acc
    ELSE LET push(r) == [self |-> r.self, links |-> acc.links \o r.link]
         IN handle_instruction_defs(
                push(handle_instruction_def(acc.self, Head(defs))), Tail(defs))

\* common::return_instruction(output_count, pc_name): one register input
\* _output_i per output and the body pc' = 0. The input count is the one the
\* arity check of handle_instruction requires of a Return that
\* pad_return_arguments brought to output_count values, each read through the
\* assignment register _output_i that ROM generation declared.
return_instruction(outputs, pc_name) ==
    InstructionDefinition(RETURN_NAME,
        Collect([i \in 1..outputs |-> Param(output_at(i - 1), None)]), None,
        LocalBody(<<PolynomialIdentity(
            ExprSub(next_reference(pc_name), Number(0)))>>))

create_constraints_for_assignment_reg(self, register) ==
    LET s1 == create_witness_fixed_pairs(self,
                  <<register \o "_const", register \o "_read_free">>)
        read_registers == write_register_names(self) \o pc_register_names(self)
                          \o read_only_register_names(self)
        read_coefficients == Collect([i \in 1..Len(read_registers) |->
                                 "read_" \o register \o "_" \o read_registers[i]])
        s2 == create_witness_fixed_pairs(s1, read_coefficients)
        assign_constraint ==
            ExprSum(Collect([i \in 1..Len(read_registers) |->
                        ExprMul(direct_reference(read_coefficients[i]),
                                direct_reference(read_registers[i]))])
                    \o << direct_reference(register \o "_const"),
                          ExprMul(direct_reference(register \o "_read_free"),
                                  direct_reference(register \o "_free_value")) >>)
    IN [s2 EXCEPT !.pil = Append(@,
           PolynomialIdentity(ExprSub(direct_reference(register), assign_constraint)))]

RECURSIVE create_constraints_for_assignment_regs(_, _)
create_constraints_for_assignment_regs(self, registers) ==
    IF registers = <<>> \/ self.abort # "" THEN self
    ELSE create_constraints_for_assignment_regs(
             create_constraints_for_assignment_reg(self, Head(registers)),
             Tail(registers))

\* a variant that leaves the default update out when there are conditioned ones
update_expression_without_default(reg) ==
    IF Len(reg.conditioned_updates) = 0 THEN reg.default_update
    ELSE Some(ExprSum(Collect([i \in 1..Len(reg.conditioned_updates) |->
                 ExprMul(reg.conditioned_updates[i][1],
                         reg.conditioned_updates[i][2])])))

\* Register::update_expression: Option<Expression>
update_expression(reg) ==
    LET updates == ExprSum(Collect([i \in 1..Len(reg.conditioned_updates) |->
                       ExprMul(reg.conditioned_updates[i][1],
                               reg.conditioned_updates[i][2])]))
        default_condition ==
            ExprSub(Number(1),
                    ExprSum(Collect([i \in 1..Len(reg.conditioned_updates) |->
                                reg.conditioned_updates[i][1]])))
    IN IF Len(reg.conditioned_updates) = 0 THEN reg.default_update
       ELSE IF reg.default_update = None THEN Some(updates)
       ELSE Some(ExprAdd(updates, ExprMul(default_condition, reg.default_update[1])))

\* the statements one register contributes to the update identities
register_update_statements(name, reg) ==
    LET update == update_expression(reg)
        lhs == next_reference(name)
    IN IF update = None THEN <<>>
       ELSE CASE reg.ty = "Pc" ->
                   << PolynomialDefinition(name \o "_update", update[1]),
                      PolynomialIdentity(ExprSub(lhs,
                          ExprMul(ExprSub(Number(1), next_reference("first_step")),
                                  direct_reference(name \o "_update")))) >>
              [] reg.ty = "ReadOnly" ->
                   << PolynomialIdentity(ExprMul(
                          ExprSub(Number(1), direct_reference("instr__reset")),
                          ExprSub(lhs, update[1]))) >>
              [] OTHER -> << PolynomialIdentity(ExprSub(lhs, update[1])) >>

first_step ==
    PolynomialConstantDefinition("first_step",
        [kind |-> "Array", value |-> <<Number(1)>>, repeated |-> <<Number(0)>>])

register_updates(self) ==
    Flatten(Collect([i \in 1..Len(self.registers) |->
                register_update_statements(self.registers[i].key,
                                           self.registers[i].value)]))

(***************************************************************************)
(* Field elements: the integers modulo Modulus.                            *)
(***************************************************************************)
FieldFrom(n) == n % Modulus

FieldNeg(v) == (Modulus - v) % Modulus

FieldAdd(a, b) == (a + b) % Modulus

FieldMul(a, b) == (a * b) % Modulus

RECURSIVE FieldPow(_, _)
FieldPow(a, n) == IF n = 0 THEN 1 % Modulus ELSE FieldMul(a, FieldPow(a, n - 1))

is_in_lower_half(v) == v <= (Modulus - 1) \div 2

(***************************************************************************)
(* The affine reducer. A value is a sequence of <<coefficient, component>>;*)
(* a result is [value, abort].                                             *)
(***************************************************************************)
ComponentRegister(name) == [kind |-> "Register", name |-> name]

ComponentConstant == [kind |-> "Constant"]

ComponentFreeInput(e) == [kind |-> "FreeInput", expr |-> e]

add_assignment_value(left, right) == left \o right

\* a variant of negate_assignment_value that keeps the coefficients
keep_assignment_value(value) == value

negate_assignment_value(value) ==
    Collect([i \in 1..Len(value) |-> <<FieldNeg(value[i][1]), value[i][2]>>])

scale_assignment_value(f, value) ==
    Collect([i \in 1..Len(value) |-> <<FieldMul(f, value[i][1]), value[i][2]>>])

is_single_constant(value) == Len(value) = 1 /\ value[1][2] = ComponentConstant

RECURSIVE process_assignment_value(_)
process_assignment_value(value) ==
    CASE value.tag = "Reference" ->
            [value |-> <<<<1 % Modulus, ComponentRegister(value.name)>>>>, abort |-> ""]
      [] value.tag = "Number" ->
            [value |-> <<<<value.value, ComponentConstant>>>>, abort |-> ""]
      [] value.tag = "FreeInput" ->
            [value |-> <<<<1 % Modulus, ComponentFreeInput(value.expr)>>>>, abort |-> ""]
      [] value.tag = "BinaryOperation" ->
            IF value.op \notin {"Add", "Sub", "Mul", "Pow"}
            THEN [value |-> <<>>, abort |-> "Invalid operation in expression"]
            ELSE LET l == process_assignment_value(value.left)
                     r == process_assignment_value(value.right)
                 IN IF l.abort # "" THEN l
                    ELSE IF r.abort # "" THEN r
                    ELSE (CASE value.op = "Add" ->
                               [value |-> add_assignment_value(l.value, r.value),
                                abort |-> ""]
                           [] value.op = "Sub" ->
                               [value |-> add_assignment_value(l.value,
                                              negate_assignment_value(r.value)),
                                abort |-> ""]
                           [] value.op = "Mul" ->
                               IF is_single_constant(l.value)
                               THEN [value |-> scale_assignment_value(l.value[1][1], r.value),
                                     abort |-> ""]
                               ELSE IF is_single_constant(r.value)
                               THEN [value |-> scale_assignment_value(r.value[1][1], l.value),
                                     abort |-> ""]
                               ELSE [value |-> <<>>,
                                     abort |-> "Multiplication by non-constant."]
                           [] value.op = "Pow" ->
                               IF is_single_constant(l.value) /\ is_single_constant(r.value)
                               THEN [value |-> <<<<FieldPow(l.value[1][1], r.value[1][1]),
                                                  ComponentConstant>>>>,
                                     abort |-> ""]
                               ELSE [value |-> <<>>,
                                     abort |-> "Exponentiation of non-constants."])
      [] value.tag = "UnaryOperation" ->
            IF value.op # "Minus"
            THEN [value |-> <<>>, abort |-> "assertion failed: op == UnaryOperator::Minus"]
            ELSE LET inner == process_assignment_value(value.expr)
                 IN IF inner.abort # "" THEN inner
                    ELSE [value |-> negate_assignment_value(inner.value), abort |-> ""]
      [] OTHER -> [value |-> <<>>, abort |-> "explicit panic"]

(***************************************************************************)
(* Code lines. A result is [line, abort].                                  *)
(***************************************************************************)
CodeLine(write_regs, value, labels, instructions, debug_directives) ==
    [write_regs |-> write_regs, value |-> value, labels |-> labels,
     instructions |-> instructions, debug_directives |-> debug_directives]

EmptyCodeLine == CodeLine(<<>>, <<>>, {}, <<>>, <<>>)

LabelRef(name) == [kind |-> "LabelRef", name |-> name]

LiteralNumber(n) == [kind |-> "Number", value |-> n]

Aborted(message) == [line |-> EmptyCodeLine, abort |-> message]

\* one (input, argument) step of the fold in handle_instruction;
\* acc is [value, literal_args, abort]
\* a variant of handle_instruction_input that records the number under a unary
\* minus without negating it
handle_instruction_input_without_sign(acc, in, a) ==
    IF acc.abort # "" THEN acc
    ELSE CASE in.kind = "Register" ->
                 LET v == process_assignment_value(a)
                 IN IF btree_contains(acc.value, in.name)
                    THEN [acc EXCEPT !.abort = "assertion failed: !value.contains_key(reg)"]
                    ELSE IF v.abort # "" THEN [acc EXCEPT !.abort = v.abort]
                    ELSE [acc EXCEPT !.value = btree_insert(@, in.name, v.value)]
           [] in.kind = "Literal" /\ in.literal = "Label" ->
                 IF a.tag = "Reference"
                 THEN [acc EXCEPT !.literal_args = Append(@, LabelRef(a.name))]
                 ELSE [acc EXCEPT !.abort = "explicit panic"]
           [] in.kind = "Literal" /\ in.literal = "UnsignedConstant" ->
                 IF a.tag # "Number"
                 THEN [acc EXCEPT !.abort = "expected unsigned number"]
                 ELSE IF ~is_in_lower_half(a.value)
                 THEN [acc EXCEPT !.abort =
                          "Number passed to unsigned parameter is negative or too large"]
                 ELSE [acc EXCEPT !.literal_args = Append(@, LiteralNumber(a.value))]
           [] in.kind = "Literal" /\ in.literal = "SignedConstant" ->
                 IF a.tag = "Number"
                 THEN [acc EXCEPT !.literal_args = Append(@, LiteralNumber(a.value))]
                 ELSE IF a.tag = "UnaryOperation" /\ a.op = "Minus"
                         /\ a.expr.tag = "Number"
                 THEN [acc EXCEPT !.literal_args = Append(@, LiteralNumber(a.expr.value))]
                 ELSE [acc EXCEPT !.abort = "explicit panic"]

handle_instruction_input(acc, in, a) ==
    IF acc.abort # "" THEN acc
    ELSE CASE in.kind = "Register" ->
                 LET v == process_assignment_value(a)
                 IN IF btree_contains(acc.value, in.name)
                    THEN [acc EXCEPT !.abort = "assertion failed: !value.contains_key(reg)"]
                    ELSE IF v.abort # "" THEN [acc EXCEPT !.abort = v.abort]
                    ELSE [acc EXCEPT !.value = btree_insert(@, in.name, v.value)]
           [] in.kind = "Literal" /\ in.literal = "Label" ->
                 IF a.tag = "Reference"
                 THEN [acc EXCEPT !.literal_args = Append(@, LabelRef(a.name))]
                 ELSE [acc EXCEPT !.abort = "explicit panic"]
           [] in.kind = "Literal" /\ in.literal = "UnsignedConstant" ->
                 IF a.tag # "Number"
                 THEN [acc EXCEPT !.abort = "expected unsigned number"]
                 ELSE IF ~is_in_lower_half(a.value)
                 THEN [acc EXCEPT !.abort =
                          "Number passed to unsigned parameter is negative or too large"]
                 ELSE [acc EXCEPT !.literal_args = Append(@, LiteralNumber(a.value))]
           [] in.kind = "Literal" /\ in.literal = "SignedConstant" ->
                 IF a.tag = "Number"
                 THEN [acc EXCEPT !.literal_args = Append(@, LiteralNumber(a.value))]
                 ELSE IF a.tag = "UnaryOperation" /\ a.op = "Minus"
                         /\ a.expr.tag = "Number"
                 THEN [acc EXCEPT !.literal_args =
                          Append(@, LiteralNumber(FieldNeg(a.expr.value)))]
                 ELSE [acc EXCEPT !.abort = "explicit panic"]

RECURSIVE handle_instruction_inputs(_, _, _)
handle_instruction_inputs(acc, inputs, args) ==
    IF inputs = <<>> \/ args = <<>> \/ acc.abort # "" THEN acc
    ELSE handle_instruction_inputs(
             handle_instruction_input(acc, Head(inputs), Head(args)),
             Tail(inputs), Tail(args))

\* a variant of the arity check that accepts missing arguments
arity_suffices(instr, args) == Len(instr.inputs) + Len(instr.outputs) >= Len(args)

\* assert_eq!(instr.inputs.len() + instr.outputs.len(), args.len(), ...)
arity_matches(instr, args) == Len(instr.inputs) + Len(instr.outputs) = Len(args)

handle_instruction(self, instr_name, args) ==
    IF ~btree_contains(self.instructions, instr_name)
    THEN Aborted("Instruction not found: " \o instr_name)
    ELSE
    LET instr == self.instructions[btree_get(self.instructions, instr_name)].value
        rest == SubSeq(args, Len(instr.inputs) + 1, Len(args))
        code_line(ins, write_regs) ==
            IF ins.abort # "" THEN Aborted(ins.abort)
            ELSE IF \E i \in 1..Len(rest) : rest[i].tag # "Reference"
            THEN Aborted("Expected direct register to assign to in instruction call.")
            ELSE IF Len(write_regs) # Len(instr.outputs)
            THEN Aborted("assertion failed: write_regs.len() == instr.outputs.len()")
            ELSE [line |-> CodeLine(write_regs, ins.value, {},
                                    <<<<instr_name, ins.literal_args>>>>, <<>>),
                  abort |-> ""]
    IN IF ~arity_matches(instr, args)
       THEN Aborted("Called instruction " \o instr_name
                    \o " with the wrong number of arguments")
       ELSE code_line(
                handle_instruction_inputs(
                    [value |-> <<>>, literal_args |-> <<>>, abort |-> ""],
                    instr.inputs, args),
                btree_from(Collect([i \in 1..Len(instr.outputs) |->
                    [key |-> instr.outputs[i], value |-> <<rest[i].name>>]])))

handle_functional_instruction(self, lhs_with_regs, function, args) ==
    IF function.tag # "Reference" THEN Aborted("Expected instruction name")
    ELSE IF ~btree_contains(self.instructions, function.name)
    THEN Aborted("Instruction not found: " \o function.name)
    ELSE
    LET instr == self.instructions[btree_get(self.instructions, function.name)].value
        zipped == IF Len(instr.outputs) < Len(lhs_with_regs)
                  THEN Len(instr.outputs) ELSE Len(lhs_with_regs)
    IN IF \E i \in 1..zipped : instr.outputs[i] # lhs_with_regs[i][2]
       THEN Aborted("The instruction " \o function.name
                    \o " uses an output register other than the caller's")
       ELSE handle_instruction(self, function.name,
                args \o Collect([i \in 1..Len(lhs_with_regs) |->
                            direct_reference(lhs_with_regs[i][1])]))

handle_non_functional_assignment(lhs_with_reg, value) ==
    IF Len(lhs_with_reg) # 1
    THEN Aborted("Multi assignments are only implemented for function calls.")
    ELSE LET write_reg == lhs_with_reg[1][1]
             assign_reg == lhs_with_reg[1][2]
             v == process_assignment_value(value)
         IN IF v.abort # "" THEN Aborted(v.abort)
            ELSE [line |-> CodeLine(<<[key |-> assign_reg, value |-> <<write_reg>>]>>,
                                    <<[key |-> assign_reg, value |-> v.value]>>,
                                    {}, <<>>, <<>>),
                  abort |-> ""]

handle_statement(self, statement) ==
    CASE statement.kind = "Assignment" ->
            IF \E i \in 1..Len(statement.lhs_with_reg) :
                   statement.lhs_with_reg[i][2] = None
            THEN Aborted("called Option::unwrap() on a None value")
            ELSE LET lhs_with_reg == Collect([i \in 1..Len(statement.lhs_with_reg) |->
                         <<statement.lhs_with_reg[i][1],
                           statement.lhs_with_reg[i][2][1]>>])
                 IN IF statement.rhs.tag = "FunctionCall"
                    THEN handle_functional_instruction(self, lhs_with_reg,
                             statement.rhs.function, statement.rhs.arguments)
                    ELSE handle_non_functional_assignment(lhs_with_reg, statement.rhs)
      [] statement.kind = "Instruction" ->
            handle_instruction(self, statement.instruction, statement.inputs)
      [] statement.kind = "Label" ->
            [line |-> [EmptyCodeLine EXCEPT !.labels = {statement.name}], abort |-> ""]
      [] statement.kind = "DebugDirective" ->
            [line |-> [EmptyCodeLine EXCEPT !.debug_directives = <<statement.directive>>],
             abort |-> ""]
      [] statement.kind = "Return" ->
            handle_instruction(self, RETURN_NAME, statement.values)

\* the closure of the reduce in handle_batch
reduce_code_line(acc, e) ==
    IF acc.write_regs # <<>>
    THEN Aborted("assertion failed: acc.write_regs.is_empty()")
    ELSE IF acc.value # <<>>
    THEN Aborted("assertion failed: acc.value.is_empty()")
    ELSE IF acc.instructions # <<>>
    THEN Aborted("assertion failed: acc.instructions.is_empty()")
    ELSE [line |-> CodeLine(e.write_regs, e.value, acc.labels \cup e.labels,
                            e.instructions,
                            acc.debug_directives \o e.debug_directives),
          abort |-> ""]

\* acc is [line, abort], the statements are the ones after the first
RECURSIVE reduce_statements(_, _, _)
reduce_statements(self, acc, statements) ==
    IF statements = <<>> \/ acc.abort # "" THEN acc
    ELSE LET reduce(e) ==
                 IF e.abort # "" THEN e
                 ELSE reduce_statements(self, reduce_code_line(acc.line, e.line),
                                        Tail(statements))
         IN reduce(handle_statement(self, Head(statements)))

handle_batch(self, batch) ==
    IF self.abort # "" THEN self
    ELSE IF batch.statements = <<>>
    THEN [self EXCEPT !.abort = "unexpected empty batch"]
    ELSE LET push(code_line) ==
                 IF code_line.abort # "" THEN [self EXCEPT !.abort = code_line.abort]
                 ELSE [self EXCEPT !.code_lines = Append(@, code_line.line)]
         IN push(reduce_statements(self,
                     handle_statement(self, Head(batch.statements)),
                     Tail(batch.statements)))

RECURSIVE handle_batches(_, _)
handle_batches(self, batches) ==
    IF batches = <<>> \/ self.abort # "" THEN self
    ELSE handle_batches(handle_batch(self, Head(batches)), Tail(batches))

(***************************************************************************)
(* translate_code_lines.                                                   *)
(***************************************************************************)
\* NextTransform::fold_expression: [expr, abort]
RECURSIVE next_transform(_)
next_transform(e) ==
    CASE e.tag = "Reference" ->
            IF e.name # "i"
            THEN [expr |-> FunctionCall(e, <<direct_reference("i")>>), abort |-> ""]
            ELSE [expr |-> e, abort |-> ""]
      [] e.tag = "UnaryOperation" /\ e.op = "Next" ->
            IF e.expr.tag # "Reference"
            THEN [expr |-> e,
                  abort |-> "Can only use ' on symbols directly in free inputs."]
            ELSE [expr |-> FunctionCall(e.expr,
                               <<ExprAdd(direct_reference("i"), Number(1))>>),
                  abort |-> ""]
      [] e.tag = "UnaryOperation" /\ e.op # "Next" ->
            LET inner == next_transform(e.expr)
            IN [expr |-> [e EXCEPT !.expr = inner.expr], abort |-> inner.abort]
      [] e.tag = "FreeInput" ->
            LET inner == next_transform(e.expr)
            IN [expr |-> [e EXCEPT !.expr = inner.expr], abort |-> inner.abort]
      [] e.tag = "BinaryOperation" ->
            LET l == next_transform(e.left)
                r == next_transform(e.right)
            IN [expr |-> [e EXCEPT !.left = l.expr, !.right = r.expr],
                abort |-> IF l.abort # "" THEN l.abort ELSE r.abort]
      [] e.tag = "FunctionCall" ->
            LET args == Collect([i \in 1..Len(e.arguments) |-> next_transform(e.arguments[i])])
                bad == {i \in 1..Len(args) : args[i].abort # ""}
            IN [expr |-> [e EXCEPT !.arguments = Collect([i \in 1..Len(args) |-> args[i].expr])],
                abort |-> IF bad = {} THEN ""
                          ELSE args[CHOOSE i \in bad : \A j \in bad : i <= j].abort]
      [] OTHER -> [expr |-> e, abort |-> ""]

\* compute_label_positions: [positions, abort]; positions is the HashMap
\* a variant of compute_label_positions that counts the code lines from 1
compute_label_positions_from_one(code_lines) ==
    LET labels == UNION {code_lines[k].labels : k \in 1..Len(code_lines)}
        lines_of(l) == {k \in 1..Len(code_lines) : l \in code_lines[k].labels}
        duplicates == {l \in labels : Cardinality(lines_of(l)) > 1}
        entries == Flatten(Collect([k \in 1..Len(code_lines) |->
                       SeqMap(LAMBDA l : [key |-> l, value |-> k],
                              btree_set_iter(code_lines[k].labels))]))
    IN [positions |-> hashmap_collect(entries),
        abort |-> IF duplicates = {} THEN "" ELSE "Duplicate label"]

compute_label_positions(code_lines) ==
    LET labels == UNION {code_lines[k].labels : k \in 1..Len(code_lines)}
        lines_of(l) == {k \in 1..Len(code_lines) : l \in code_lines[k].labels}
        duplicates == {l \in labels : Cardinality(lines_of(l)) > 1}
        entries == Flatten(Collect([k \in 1..Len(code_lines) |->
                       SeqMap(LAMBDA l : [key |-> l, value |-> k - 1],
                              btree_set_iter(code_lines[k].labels))]))
    IN [positions |-> hashmap_collect(entries),
        abort |-> IF duplicates = {} THEN "" ELSE "Duplicate label"]

RomSet(column, value) == [op |-> "set", column |-> column, value |-> value]

RomAdd(column, value) == [op |-> "add", column |-> column, value |-> value]

RomLabel(column, label) == [op |-> "label", column |-> column, label |-> label]

QueryArm(register, pattern, expr) ==
    [op |-> "arm", register |-> register, pattern |-> pattern, expr |-> expr]

\* a variant of value_updates in which a coefficient replaces the fixed value
value_updates_overwriting(assign_reg, i, value) ==
    Flatten(Collect([k \in 1..Len(value) |->
        CASE value[k][2].kind = "Register" ->
                 << RomSet("p_read_" \o assign_reg \o "_" \o value[k][2].name,
                           value[k][1]) >>
          [] value[k][2].kind = "Constant" ->
                 << RomSet("p_" \o assign_reg \o "_const", value[k][1]) >>
          [] value[k][2].kind = "FreeInput" ->
                 << RomAdd("p_" \o assign_reg \o "_read_free", value[k][1]),
                    QueryArm(assign_reg, FieldFrom(i), value[k][2].expr) >>]))

\* the updates of the ROM constants and query arms line number i (from 0)
\* asks for, in the order translate_code_lines makes them
value_updates(assign_reg, i, value) ==
    Flatten(Collect([k \in 1..Len(value) |->
        CASE value[k][2].kind = "Register" ->
                 << RomAdd("p_read_" \o assign_reg \o "_" \o value[k][2].name,
                           value[k][1]) >>
          [] value[k][2].kind = "Constant" ->
                 << RomAdd("p_" \o assign_reg \o "_const", value[k][1]) >>
          [] value[k][2].kind = "FreeInput" ->
                 << RomAdd("p_" \o assign_reg \o "_read_free", value[k][1]),
                    QueryArm(assign_reg, FieldFrom(i), value[k][2].expr) >>]))

\* a variant of instruction_updates that leaves the read_free columns alone
instruction_updates_keeping_read_free(self, line, instr, literal_args) ==
    LET params == literal_arg_names(
                      self.instructions[btree_get(self.instructions, instr)].value)
        n == IF Len(params) < Len(literal_args) THEN Len(params) ELSE Len(literal_args)
    IN << RomSet("p_instr_" \o instr, 1 % Modulus) >>
       \o Collect([k \in 1..n |->
              IF literal_args[k].kind = "LabelRef"
              THEN RomLabel("p_instr_" \o instr \o "_param_" \o params[k],
                            literal_args[k].name)
              ELSE RomSet("p_instr_" \o instr \o "_param_" \o params[k],
                          literal_args[k].value)])

instruction_updates(self, line, instr, literal_args) ==
    LET params == literal_arg_names(
                      self.instructions[btree_get(self.instructions, instr)].value)
        n == IF Len(params) < Len(literal_args) THEN Len(params) ELSE Len(literal_args)
    IN Flatten(Collect([k \in 1..Len(line.write_regs) |->
           IF line.write_regs[k].value # <<>>
           THEN << RomSet("p_" \o line.write_regs[k].key \o "_read_free", 1 % Modulus) >>
           ELSE <<>>]))
       \o << RomSet("p_instr_" \o instr, 1 % Modulus) >>
       \o Collect([k \in 1..n |->
              IF literal_args[k].kind = "LabelRef"
              THEN RomLabel("p_instr_" \o instr \o "_param_" \o params[k],
                            literal_args[k].name)
              ELSE RomSet("p_instr_" \o instr \o "_param_" \o params[k],
                          literal_args[k].value)])

line_updates(self, i, line) ==
    Flatten(Collect([k \in 1..Len(line.write_regs) |->
        Collect([j \in 1..Len(line.write_regs[k].value) |->
            RomSet("p_reg_write_" \o line.write_regs[k].key \o "_"
                   \o line.write_regs[k].value[j], 1 % Modulus)])]))
    \o Flatten(Collect([k \in 1..Len(line.value) |->
           value_updates(line.value[k].key, i, line.value[k].value)]))
    \o Flatten(Collect([k \in 1..Len(line.instructions) |->
           instruction_updates(self, line, line.instructions[k][1],
                               line.instructions[k][2])]))

\* one update applied to t = [rom_constants, arms, abort] for line i (from 0)
apply_update(t, i, u, label_positions) ==
    IF t.abort # "" THEN t
    ELSE IF u.op = "arm"
    THEN LET folded == next_transform(u.expr)
         IN IF ~btree_contains(t.arms, u.register)
            THEN [t EXCEPT !.abort = "called Option::unwrap() on a None value"]
            ELSE IF folded.abort # "" THEN [t EXCEPT !.abort = folded.abort]
            ELSE [t EXCEPT !.arms[btree_get(t.arms, u.register)].value =
                     Append(@, [pattern |-> u.pattern, value |-> folded.expr])]
    ELSE IF ~btree_contains(t.rom_constants, u.column)
    THEN [t EXCEPT !.abort = "Register combination or column not found: " \o u.column]
    ELSE IF u.op = "label" /\ ~hashmap_contains_key(label_positions, u.label)
    THEN [t EXCEPT !.abort = u.label \o " not found in labels"]
    ELSE LET k == btree_get(t.rom_constants, u.column)
             new == CASE u.op = "set" -> u.value
                      [] u.op = "add" -> FieldAdd(t.rom_constants[k].value[i + 1], u.value)
                      [] u.op = "label" -> FieldFrom(hashmap_get(label_positions, u.label))
         IN [t EXCEPT !.rom_constants[k].value[i + 1] = new]

RECURSIVE apply_updates(_, _, _, _)
apply_updates(t, i, updates, label_positions) ==
    IF updates = <<>> \/ t.abort # "" THEN t
    ELSE apply_updates(apply_update(t, i, Head(updates), label_positions),
                       i, Tail(updates), label_positions)

RECURSIVE translate_lines(_, _, _, _)
translate_lines(self, t, i, label_positions) ==
    IF i >= Len(self.code_lines) \/ t.abort # "" THEN t
    ELSE translate_lines(self,
             apply_updates(t, i, line_updates(self, i, self.code_lines[i + 1]),
                           label_positions),
             i + 1, label_positions)

\* ArrayExpression::Value(values).pad_with_last()
pad_with_last(values) ==
    IF values = <<>> THEN [kind |-> "Array", value |-> <<>>, repeated |-> <<Number(0)>>]
    ELSE [kind |-> "Array", value |-> values, repeated |-> <<values[Len(values)]>>]

free_value_column(pc_name, reg, arms) ==
    witness_column(reg \o "_free_value",
        IF arms = <<>> THEN None
        ELSE Some([kind |-> "Query", params |-> <<"i">>,
                   scrutinee |-> FunctionCall(direct_reference(pc_name),
                                              <<direct_reference("i")>>),
                   arms |-> arms]))

rom_constant_definition(name, values) ==
    PolynomialConstantDefinition(name,
        IF \A k \in 1..Len(values) : values[k] = values[1]
        THEN [kind |-> "Array", value |-> <<>>, repeated |-> <<Number(values[1])>>]
        ELSE pad_with_last(SeqMap(Number, values)))

translate_code_lines(self) ==
    LET n == Len(self.code_lines)
        p_line == PolynomialConstantDefinition("p_line",
                      pad_with_last(Collect([k \in 1..n |-> Number(FieldFrom(k - 1))])))
        registers == assignment_register_names(self)
        emit(t) ==
            IF t.abort # ""
            THEN [self EXCEPT !.pil = Append(@, p_line), !.abort = t.abort]
            ELSE IF n = 0 /\ t.rom_constants # <<>>
            THEN [self EXCEPT !.pil = Append(@, p_line), !.abort = "index out of bounds"]
            ELSE [self EXCEPT !.pil =
                     Append(@, p_line)
                     \o Collect([k \in 1..Len(registers) |->
                            free_value_column(self.pc_name[1], registers[k],
                                              t.arms[k].value)])
                     \o Collect([k \in 1..Len(t.rom_constants) |->
                            rom_constant_definition(t.rom_constants[k].key,
                                                    t.rom_constants[k].value)])]
        translate(labels) ==
            IF labels.abort # ""
            THEN [self EXCEPT !.pil = Append(@, p_line), !.abort = labels.abort]
            ELSE emit(translate_lines(self,
                     [rom_constants |->
                          btree_from(Collect([k \in 1..Len(self.rom_constant_names) |->
                              [key |-> self.rom_constant_names[k],
                               value |-> Repeat(0, n)]])),
                      arms |-> Collect([k \in 1..Len(registers) |->
                                  [key |-> registers[k], value |-> <<>>]]),
                      abort |-> ""],
                     0, labels.positions))
    IN IF self.abort # "" THEN self
       ELSE translate(compute_label_positions(self.code_lines))

(***************************************************************************)
(* convert_machine.                                                        *)
(***************************************************************************)
RECURSIVE handle_register_declarations(_, _)
handle_register_declarations(self, declarations) ==
    IF declarations = <<>> \/ self.abort # "" THEN self
    ELSE handle_register_declarations(
             handle_register_declaration(self, Head(declarations)),
             Tail(declarations))

\* a variant of set_latch which leaves the latch as it was
keep_latch(m) == m

\* input.latch = Some(instruction_flag(RETURN_NAME))
set_latch(m) == [m EXCEPT !.latch = Some(instruction_flag(RETURN_NAME))]

\* a variant of the line lookup as a permutation
line_lookup_permutation(self) ==
    PermutationIdentity(
        SelectedExpressions(None,
            Collect([k \in 1..Len(self.line_lookup) |-> direct_reference(self.line_lookup[k][1])])),
        SelectedExpressions(None,
            Collect([k \in 1..Len(self.line_lookup) |-> direct_reference(self.line_lookup[k][2])])))

line_lookup_identity(self) ==
    PlookupIdentity(
        SelectedExpressions(None,
            Collect([k \in 1..Len(self.line_lookup) |-> direct_reference(self.line_lookup[k][1])])),
        SelectedExpressions(None,
            Collect([k \in 1..Len(self.line_lookup) |-> direct_reference(self.line_lookup[k][2])])))

\* ASMPILConverter::convert_machine: [machine, abort]
converter_convert_machine(self0, m, r) ==
    IF ~has_pc(m)
    THEN [machine |-> m,
          abort |-> IF r = None THEN "" ELSE "assertion failed: rom.is_none()"]
    ELSE
    LET Failed(message) == [machine |-> m, abort |-> message]
        \* the statements of the ROM, the translation and the output
        lower(links, s3) ==
            LET emit(s5) ==
                    IF s5.abort # "" THEN Failed(s5.abort)
                    ELSE [machine |->
                             [set_latch(m) EXCEPT
                                       !.registers = <<>>,
                                       !.instructions = <<>>,
                                       !.links = @ \o links,
                                       !.pil = @ \o Append(s5.pil,
                                                       line_lookup_identity(s5))],
                          abort |-> ""]
                translate(s4) ==
                    IF s4.abort # "" THEN Failed(s4.abort)
                    ELSE emit(translate_code_lines(s4))
            IN IF r = None THEN Failed("called Option::unwrap() on a None value")
               ELSE translate(handle_batches(s3, r[1]))
        \* the assignment constraints and the register updates
        constrain(links, s) ==
            LET update(s2) ==
                    [s2 EXCEPT !.pil = Append(@, first_step) \o register_updates(s2)]
            IN lower(links, update(create_constraints_for_assignment_regs(
                                       s, assignment_register_names(s))))
        \* the return instruction
        define_return(d) ==
            LET defined(ret) ==
                    IF ret.self.abort # "" THEN Failed(ret.self.abort)
                    ELSE IF ret.link # None
                    THEN Failed("return instruction cannot link to an external function")
                    ELSE constrain(d.links, ret.self)
            IN IF d.self.abort # "" THEN Failed(d.self.abort)
               ELSE defined(handle_instruction_def(d.self,
                        return_instruction(d.self.output_count, d.self.pc_name[1])))
        \* the instruction definitions
        define_instructions(s1) ==
            IF s1.abort # "" THEN Failed(s1.abort)
            ELSE define_return(handle_instruction_defs(
                     [self |-> s1, links |-> <<>>], m.instructions))
    IN define_instructions(handle_register_declarations(self0, m.registers))

\* a variant of convert_machine which sets the latch of every machine
convert_machine_latching(m, r) ==
    LET latched(res) ==
            [res EXCEPT !.machine.latch = Some(instruction_flag(RETURN_NAME))]
    IN latched(converter_convert_machine(
           with_output_count(MaxOf({OutputLen(operations(m)[i]) :
                                       i \in 1..Len(operations(m))})),
           m, r))

\* a variant of convert_machine which leaves the instructions in the machine
convert_machine_keeping_instructions(m, r) ==
    LET converted == converter_convert_machine(
                         with_output_count(MaxOf({OutputLen(operations(m)[i]) :
                                                     i \in 1..Len(operations(m))})),
                         m, r)
    IN [converted EXCEPT !.machine.instructions = m.instructions]

\* the free function convert_machine
convert_machine(m, r) ==
    converter_convert_machine(
        with_output_count(MaxOf({OutputLen(operations(m)[i]) :
                                    i \in 1..Len(operations(m))})),
        m, r)

(***************************************************************************)
(* The machines the pipeline is run on.                                    *)
(***************************************************************************)
Machine(registers, instructions, callable, pil, links, latch, operation_id) ==
    [registers |-> registers, instructions |-> instructions, callable |-> callable,
     pil |-> pil, links |-> links, latch |-> latch, operation_id |-> operation_id]

\* reg pc[@pc]; reg X[<=]; reg Y[<=]; reg Z[<=]; reg A; reg B;
VmRegisters ==
    << RegisterDeclaration("pc", "Pc"), RegisterDeclaration("X", "Assignment"),
       RegisterDeclaration("Y", "Assignment"), RegisterDeclaration("Z", "Assignment"),
       RegisterDeclaration("A", "Write"), RegisterDeclaration("B", "Write") >>

\* instr assert_zero X { X = 0 }    instr add X, Y -> Z { X + Y = Z }
VmInstructions ==
    << InstructionDefinition("assert_zero", <<Param("X", None)>>, None,
           LocalBody(<<PolynomialIdentity(
               BinaryOperation(Reference("X"), "Sub", Number(0)))>>)),
       InstructionDefinition("add", <<Param("X", None), Param("Y", None)>>,
           Some(<<Param("Z", None)>>),
           LocalBody(<<PolynomialIdentity(BinaryOperation(
               BinaryOperation(Reference("X"), "Add", Reference("Y")),
               "Sub", Reference("Z")))>>)) >>

Field == Some("field")

\* function identity x: field -> field { return x; }
FnIdentity ==
    FunctionSymbol(<<Param("x", Field)>>, Some(<<Param("", Field)>>),
        << Batch(<<Return(<<Reference("x")>>)>>) >>)

\* function f_add x: field, y: field -> field { A <=Z= add(x, y); return A; }
FnAdd ==
    FunctionSymbol(<<Param("x", Field), Param("y", Field)>>, Some(<<Param("", Field)>>),
        << Batch(<<AssignmentStatement(<< <<"A", Some("Z")>> >>,
               FunctionCall(Reference("add"), <<Reference("x"), Reference("y")>>))>>),
           Batch(<<Return(<<Reference("A")>>)>>) >>)

\* function f_assert_zero x: field { assert_zero x; ... assert_zero x; return; }
\* with k batches before the return
FnAssertZero(k) ==
    FunctionSymbol(<<Param("x", Field)>>, None,
        Collect([i \in 1..k |-> Batch(<<InstructionStatement("assert_zero", <<Reference("x")>>)>>)])
        \o << Batch(<<Return(<<>>)>>) >>)

\* function pair x: field -> field, field { A <=X= x + 1; return A, x; }
FnPair ==
    FunctionSymbol(<<Param("x", Field)>>, Some(<<Param("", Field), Param("", Field)>>),
        << Batch(<<AssignmentStatement(<< <<"A", Some("X")>> >>,
               BinaryOperation(Reference("x"), "Add", Number(1)))>>),
           Batch(<<Return(<<Reference("A"), Reference("x")>>)>>) >>)

\* function shadow A: field, X: field -> field { A <=X= A + X; return A; }
\* the inputs are named like a write register and an assignment register
FnShadow ==
    FunctionSymbol(<<Param("A", Field), Param("X", Field)>>, Some(<<Param("", Field)>>),
        << Batch(<<AssignmentStatement(<< <<"A", Some("X")>> >>,
               BinaryOperation(Reference("A"), "Add", Reference("X")))>>),
           Batch(<<Return(<<Reference("A")>>)>>) >>)

\* function twice x: field, x: field { return x, B; }: an input name declared
\* twice, and a return with more values than the function declares outputs
FnTwice ==
    FunctionSymbol(<<Param("x", Field), Param("x", Field)>>, None,
        << Batch(<<Return(<<Reference("x"), Reference("B")>>)>>) >>)

\* function free x: field { .debug loc; here: A <=X= ${ x } * 2 - (-x); return; }
\* in one batch that ends for an unimplemented reason, then the return
FnFree ==
    FunctionSymbol(<<Param("x", Field)>>, None,
        << WithReason(Batch(<<DebugDirective("loc"), LabelStatement("here"),
               AssignmentStatement(<< <<"A", Some("X")>> >>,
                   BinaryOperation(
                       BinaryOperation(FreeInput(Reference("x")), "Mul", Number(2)),
                       "Sub", UnaryOperation("Minus", Reference("x"))))>>),
               "Unimplemented"),
           Batch(<<Return(<<>>)>>) >>)

\* a function without statements, which ROM generation rejects
FnEmpty == FunctionSymbol(<<>>, None, <<>>)

FunctionPool ==
    {FnIdentity, FnAdd, FnPair, FnShadow, FnTwice, FnFree, FnEmpty}
    \cup {FnAssertZero(k) : k \in 1..MaxBatches}

\* the callable map of n functions: its keys f1 < f2 < ... in iteration order
CallableMaps ==
    UNION {{Collect([i \in 1..n |-> Callable("f" \o ToString(i), pick[i])]) :
                pick \in [1..n -> FunctionPool]} : n \in 0..MaxFunctions}

VmMachines ==
    {Machine(VmRegisters, VmInstructions, c, <<>>, <<>>, None, None) :
        c \in CallableMaps}

\* machines without a pc: constrained machines, whose callables are operations
NoPcMachines ==
    {Machine(r, <<>>, c, p, <<>>, l, o) :
        r \in {<<>>, <<RegisterDeclaration("X", "Assignment"),
                       RegisterDeclaration("A", "Write")>>},
        c \in {<<>>,
               <<Callable("get", OperationSymbol(Some(0), <<Param("x", None)>>,
                                     Some(<<Param("y", None)>>)))>>,
               <<Callable("f1", FnIdentity)>>},
        p \in {<<>>, <<PolynomialIdentity(Reference("x"))>>},
        l \in {None, Some("latch")},
        o \in {None, Some("operation_id")}}

\* instr <name> X { { X } in { BYTE } }: a local body with a plookup
InstrRange(name) ==
    InstructionDefinition(name, <<Param("X", None)>>, None,
        LocalBody(<<PlookupIdentity(
            SelectedExpressions(None, <<Reference("X")>>),
            SelectedExpressions(None, <<Reference("BYTE")>>))>>))

\* instr guarded X { A { X } in { BYTE } }: the plookup has a left selector
InstrGuarded ==
    InstructionDefinition("guarded", <<Param("X", None)>>, None,
        LocalBody(<<PlookupIdentity(
            SelectedExpressions(Some(Reference("A")), <<Reference("X")>>),
            SelectedExpressions(None, <<Reference("BYTE")>>))>>))

\* function check x: field { range x; return; }
FnRange ==
    FunctionSymbol(<<Param("x", Field)>>, None,
        << Batch(<<InstructionStatement("range", <<Reference("x")>>)>>),
           Batch(<<Return(<<>>)>>) >>)

\* the vm with further instructions whose bodies hold plookups
LookupMachines ==
    {Machine(VmRegisters, VmInstructions \o extra,
             <<Callable("f1", f)>>, <<>>, <<>>, None, None) :
        extra \in {<<InstrRange("range")>>,
                   <<InstrRange("byte"), InstrRange("range")>>,
                   <<InstrGuarded>>},
        f \in {FnRange, FnIdentity}}

\* function f x: field { here: here: assert_zero x; return; }
FnHereTwice ==
    FunctionSymbol(<<Param("x", Field)>>, None,
        << Batch(<<LabelStatement("here"), LabelStatement("here"),
                   InstructionStatement("assert_zero", <<Reference("x")>>)>>),
           Batch(<<Return(<<>>)>>) >>)

\* function f x: field { here: assert_zero x; <second>: return; }
FnTwoLabels(second) ==
    FunctionSymbol(<<Param("x", Field)>>, None,
        << Batch(<<LabelStatement("here"),
                   InstructionStatement("assert_zero", <<Reference("x")>>)>>),
           Batch(<<LabelStatement(second), Return(<<>>)>>) >>)

\* function f1 { _f1: return; }: the label ROM generation gives the function
FnOwnLabel ==
    FunctionSymbol(<<>>, None,
        << Batch(<<LabelStatement("_f1"), Return(<<>>)>>) >>)

\* function f x: field, y: field -> field { <lhs> = add(<args>); return A; }
\* with lhs a list of <<write register, assignment register>>
FnCallAdd(lhs, args) ==
    FunctionSymbol(<<Param("x", Field), Param("y", Field)>>, Some(<<Param("", Field)>>),
        << Batch(<<AssignmentStatement(lhs, FunctionCall(Reference("add"), args))>>),
           Batch(<<Return(<<Reference("A")>>)>>) >>)

\* the vm with one function that assigns from a call of add X, Y -> Z:
\* A <=X= add(x, y);  A, B <=Z, Y= add(x);  A, B <=Z, Y= add(x, y);
\* A, B <=Y, Z= add(x)
FunctionalMachines ==
    {Machine(VmRegisters, VmInstructions, <<Callable("f1", f)>>,
             <<>>, <<>>, None, None) :
        f \in {FnCallAdd(<< <<"A", Some("X")>> >>, <<Reference("x"), Reference("y")>>),
               FnCallAdd(<< <<"A", Some("Z")>>, <<"B", Some("Y")>> >>, <<Reference("x")>>),
               FnCallAdd(<< <<"A", Some("Z")>>, <<"B", Some("Y")>> >>,
                         <<Reference("x"), Reference("y")>>),
               FnCallAdd(<< <<"A", Some("Y")>>, <<"B", Some("Z")>> >>, <<Reference("x")>>)}}

\* function f x: field -> field { A <=<a>= x + 1; return A; }
FnWriteThrough(a) ==
    FunctionSymbol(<<Param("x", Field)>>, Some(<<Param("", Field)>>),
        << Batch(<<AssignmentStatement(<< <<"A", Some(a)>> >>,
               BinaryOperation(Reference("x"), "Add", Number(1)))>>),
           Batch(<<Return(<<Reference("A")>>)>>) >>)

\* machines that declare the write register A before or after the assignment
\* register X, with a function that writes A through X or through _output_0
OrderMachines ==
    {Machine(r, <<>>, <<Callable("f1", FnWriteThrough(a))>>,
             <<>>, <<>>, None, None) :
        r \in {<< RegisterDeclaration("pc", "Pc"), RegisterDeclaration("A", "Write"),
                  RegisterDeclaration("X", "Assignment") >>,
               << RegisterDeclaration("pc", "Pc"), RegisterDeclaration("X", "Assignment"),
                  RegisterDeclaration("A", "Write") >>},
        a \in {"X", "_output_0"}}

\* instr <name> { <register>' = <register> + <step> }
InstrUpdate(name, register, step) ==
    InstructionDefinition(name, <<>>, None,
        LocalBody(<<PolynomialIdentity(BinaryOperation(
            next_reference(register), "Sub",
            BinaryOperation(Reference(register), "Add", Number(step))))>>))

\* machines whose instructions update a write register, an assignment
\* register and the pc
UpdateMachines ==
    {Machine(<< RegisterDeclaration("pc", "Pc"), RegisterDeclaration("X", "Assignment"),
                RegisterDeclaration("A", "Write") >>,
             i, <<Callable("f1", FnIdentity)>>, <<>>, <<>>, None, None) :
        i \in {<<InstrUpdate("incr", "A", 1)>>,
               <<InstrUpdate("incr", "A", 1), InstrUpdate("bump", "X", 1),
                 InstrUpdate("leap", "pc", 2), InstrUpdate("decr", "A", 100)>>}}

\* the vm with one function that holds labels
LabelMachines ==
    {Machine(VmRegisters, VmInstructions, <<Callable("f1", f)>>,
             <<>>, <<>>, None, None) :
        f \in {FnHereTwice, FnTwoLabels("here"), FnTwoLabels("there"),
               FnTwoLabels("_sink"), FnOwnLabel}}

\* the vm with a latch, an operation id and a PIL statement of its own
LatchedMachines ==
    {Machine(VmRegisters, VmInstructions, <<Callable("f1", f)>>,
             <<PolynomialIdentity(Reference("x"))>>, <<>>, Some("latch"), o) :
        f \in {FnIdentity, FnAdd}, o \in {None, Some("operation_id")}}

\* instr <name> X -> Z = sub.<name>
InstrExternal(name) ==
    InstructionDefinition(name, <<Param("X", None)>>, Some(<<Param("Z", None)>>),
        CallableRef([instance |-> "sub", callable |-> name]))

\* reg pc[@pc]; reg Z[<=]; reg X[<=]; reg B; reg A;
ShuffledRegisters ==
    << RegisterDeclaration("pc", "Pc"), RegisterDeclaration("Z", "Assignment"),
       RegisterDeclaration("X", "Assignment"), RegisterDeclaration("B", "Write"),
       RegisterDeclaration("A", "Write") >>

\* machines that declare their registers out of the order of their names,
\* with instructions whose body is external, with and without a link of
\* their own
ExternalMachines ==
    {Machine(ShuffledRegisters, i, <<Callable("f1", FnIdentity)>>, <<>>, l, None, None) :
        i \in {<<InstrExternal("ext")>>,
               <<InstrExternal("ext"), VmInstructions[1], InstrExternal("mul")>>},
        l \in {<<>>,
               <<[flag |-> Reference("instr_old"), inputs |-> <<>>, outputs |-> None,
                  to |-> [instance |-> "sub", callable |-> "old"]]>>}}

\* the vm with one function named after a label of the dispatcher or of the
\* sink
NamedMachines ==
    {Machine(VmRegisters, VmInstructions, <<Callable(n, FnIdentity)>>,
             <<>>, <<>>, None, None) :
        n \in {"start", "sink"}}

Machines ==
    VmMachines \cup LookupMachines \cup LatchedMachines \cup LabelMachines
    \cup FunctionalMachines \cup OrderMachines \cup UpdateMachines
    \cup ExternalMachines \cup NamedMachines \cup NoPcMachines

HashSeeds == {0, 1}

Init ==
    /\ input \in Machines
    /\ machine = input
    /\ rom = None
    /\ stage = "parsed"
    /\ panic = ""
    /\ hashSeed = 0
    /\ run = 1
    /\ previous = None
    /\ call = None
    /\ returned = None

\* generate_machine_rom(machine)
GenerateMachineRom ==
    /\ stage = "parsed"
    /\ \E r \in {generate_machine_rom(machine)} :
        /\ machine' = r.machine
        /\ rom' = r.rom
        /\ stage' = IF r.abort = "" THEN "rom_generated" ELSE "aborted"
        /\ panic' = r.abort
    /\ UNCHANGED <<input, hashSeed, run, previous, call, returned>>

\* convert_machine(machine, rom)
ConvertMachine ==
    /\ stage = "rom_generated"
    /\ \E r \in {convert_machine(machine, rom)} :
        /\ machine' = IF r.abort = "" THEN r.machine ELSE machine
        /\ stage' = IF r.abort = "" THEN "converted" ELSE "aborted"
        /\ panic' = r.abort
    /\ UNCHANGED <<input, rom, hashSeed, run, previous, call, returned>>

\* the pipeline is invoked once more on the same input; the hash maps of the
\* new invocation draw another RandomState
Reinvoke ==
    /\ stage \in {"converted", "aborted"}
    /\ run = 1
    /\ previous' = Some([machine |-> machine, rom |-> rom, stage |-> stage,
                          panic |-> panic])
    /\ machine' = input
    /\ rom' = None
    /\ stage' = "parsed"
    /\ panic' = ""
    /\ run' = 2
    /\ hashSeed' \in HashSeeds \ {hashSeed}
    /\ UNCHANGED <<input, call, returned>>

Next == GenerateMachineRom \/ ConvertMachine \/ Reinvoke

Spec == Init /\ [][Next]_vars

(***************************************************************************)
(* The methods of the converter called on their own, on arguments drawn    *)
(* from bounded sets; no machine goes through the pipeline.                *)
(***************************************************************************)
\* the leaves of the expressions: a register and a number
ExprLeaves == {Reference("X"), Number(2)}

\* the leaves and the sums, differences and products of two of them
ExprTerms ==
    ExprLeaves \cup {BinaryOperation(a, op, b) :
                        a \in ExprLeaves, b \in ExprLeaves,
                        op \in {"Add", "Sub", "Mul"}}

\* (X + 2) * (X - 2)
ExprProductOfSums ==
    BinaryOperation(BinaryOperation(Reference("X"), "Add", Number(2)), "Mul",
                    BinaryOperation(Reference("X"), "Sub", Number(2)))

\* a term under a unary operator or as the argument of a function call
ExprOtherForms ==
    {UnaryOperation("Minus", a) : a \in ExprTerms \cup {ExprProductOfSums}}
    \cup {FunctionCall(Reference("f"), <<a>>) :
             a \in ExprTerms \cup {ExprProductOfSums}}

\* the expressions linearize is called on
LinearizeInputs ==
    ExprTerms \cup ExprOtherForms
    \cup {BinaryOperation(a, op, b) :
             a \in ExprTerms, b \in ExprTerms, op \in {"Add", "Mul", "Pow"}}
    \cup {BinaryOperation(a, op, b) :
             a \in {Number(2), Reference("X")}, b \in ExprOtherForms,
             op \in {"Add", "Mul"}}

LinearizeCalls ==
    {[method |-> "linearize", prefix |-> "instr_foo_pc_update", expr |-> e] :
        e \in LinearizeInputs}

\* the statements of the batches handle_batch is called on: two labels, a
\* debug directive, assert_zero x and A <=X= x + 1
BatchStatements ==
    {LabelStatement("here"), LabelStatement("there"), DebugDirective("loc"),
     InstructionStatement("assert_zero", <<Reference("x")>>),
     AssignmentStatement(<< <<"A", Some("X")>> >>,
         BinaryOperation(Reference("x"), "Add", Number(1)))}

\* at most this many statements in a batch
MaxStatements == 3

HandleBatchCalls ==
    {[method |-> "handle_batch", batch |-> Batch(s)] :
        s \in UNION {[1..n -> BatchStatements] : n \in 0..MaxStatements}}

\* the converter that has handled the registers and instructions of the vm
VmConverter ==
    handle_instruction_defs(
        [self |-> handle_register_declarations(with_output_count(0), VmRegisters),
         links |-> <<>>],
        VmInstructions).self

\* at most this many values in a Return
MaxValues == 2

\* Return statements of O values, to be lowered by a converter whose return
\* instruction declares a number of inputs between 0 and O + 1
HandleReturnCalls ==
    {[method |-> "handle_return",
      values |-> SubSeq(<<Reference("A"), Reference("B"), Reference("A")>>, 1, o),
      declared |-> d] :
        o \in 0..MaxValues, d \in 0..(MaxValues + 1)}

\* the converter that has handled the registers of the vm and a return
\* instruction with the given number of inputs
ReturnConverter(declared) ==
    handle_instruction_def(
        handle_register_declarations(with_output_count(declared), VmRegisters),
        return_instruction(declared, "pc")).self

\* the expressions process_assignment_value is called on: a register, a
\* number and a free input, the sums, differences, products and negations
\* of those, and the sums, differences, products and negations of these
AffineLeaves == {Reference("X"), Number(3), FreeInput(Reference("Y"))}

AffineTerms ==
    AffineLeaves
    \cup {BinaryOperation(a, op, b) :
             a \in AffineLeaves, b \in AffineLeaves, op \in {"Add", "Sub", "Mul"}}
    \cup {UnaryOperation("Minus", a) : a \in AffineLeaves}

AffineInputs ==
    AffineTerms
    \cup {BinaryOperation(a, op, b) :
             a \in AffineTerms, b \in AffineTerms, op \in {"Add", "Sub", "Mul"}}
    \cup {UnaryOperation("Minus", a) : a \in AffineTerms}

ProcessAssignmentValueCalls ==
    {[method |-> "process_assignment_value", expr |-> e] : e \in AffineInputs}

\* instr jump l: label { pc' = l }   instr push n: signed { A' = A + n }
\* instr lim n: unsigned { B' = n }      instr dbl X -> X { X = X + X }
LineInstructions ==
    VmInstructions \o
    << InstructionDefinition("jump", <<Param("l", Some("label"))>>, None,
           LocalBody(<<PolynomialIdentity(BinaryOperation(
               next_reference("pc"), "Sub", Reference("l")))>>)),
       InstructionDefinition("push", <<Param("n", Some("signed"))>>, None,
           LocalBody(<<PolynomialIdentity(BinaryOperation(
               next_reference("A"), "Sub",
               BinaryOperation(Reference("A"), "Add", Reference("n"))))>>)),
       InstructionDefinition("lim", <<Param("n", Some("unsigned"))>>, None,
           LocalBody(<<PolynomialIdentity(BinaryOperation(
               next_reference("B"), "Sub", Reference("n")))>>)),
       InstructionDefinition("dbl", <<Param("X", None)>>, Some(<<Param("X", None)>>),
           LocalBody(<<PolynomialIdentity(BinaryOperation(
               Reference("X"), "Sub",
               BinaryOperation(Reference("X"), "Add", Reference("X"))))>>)) >>

\* A <=<a>= <value>;
Assign(a, value) == AssignmentStatement(<< <<"A", Some(a)>> >>, value)

\* the batches of the ROMs the converter lowers on its own
LineBatches ==
    { \* here: A <=X= A - A;
      Batch(<<LabelStatement("here"),
              Assign("X", BinaryOperation(Reference("A"), "Sub", Reference("A")))>>),
      \* A <=X= A + 3 + A;
      Batch(<<Assign("X", BinaryOperation(
                  BinaryOperation(Reference("A"), "Add", Number(3)),
                  "Add", Reference("A")))>>),
      \* A <=Y= ${ x } * 2 - 5 - 4;
      Batch(<<Assign("Y", BinaryOperation(BinaryOperation(
                  BinaryOperation(FreeInput(Reference("x")), "Mul", Number(2)),
                  "Sub", Number(5)), "Sub", Number(4)))>>),
      \* A <=X= ${ x } + ${ x' };
      Batch(<<Assign("X", BinaryOperation(FreeInput(Reference("x")), "Add",
                  FreeInput(next_reference("x"))))>>),
      \* A <=X= dbl(2 * ${ x });
      Batch(<<Assign("X", FunctionCall(Reference("dbl"),
                  <<BinaryOperation(Number(2), "Mul", FreeInput(Reference("x")))>>))>>),
      \* A <=Z= add(A, 3);
      Batch(<<Assign("Z", FunctionCall(Reference("add"),
                  <<Reference("A"), Number(3)>>))>>),
      \* there: assert_zero B + ${ x };
      Batch(<<LabelStatement("there"),
              InstructionStatement("assert_zero",
                  <<BinaryOperation(Reference("B"), "Add", FreeInput(Reference("x")))>>)>>),
      \* jump here;   jump nowhere;   push -3;   push 3;   lim 7;
      Batch(<<InstructionStatement("jump", <<Reference("here")>>)>>),
      Batch(<<InstructionStatement("jump", <<Reference("nowhere")>>)>>),
      Batch(<<InstructionStatement("push", <<UnaryOperation("Minus", Number(3))>>)>>),
      Batch(<<InstructionStatement("push", <<Number(3)>>)>>),
      Batch(<<InstructionStatement("lim", <<Number(7)>>)>>) }

\* at most this many batches in such a ROM
MaxLines == 2

LowerRomCalls ==
    {[method |-> "lower_rom", rom |-> r] :
        r \in UNION {[1..n -> LineBatches] : n \in 1..MaxLines}}

\* the converter that has handled the registers of the vm, its instructions
\* and those above, the return instruction and the assignment registers
LineConverter ==
    LET defined == handle_instruction_defs(
                       [self |-> handle_register_declarations(
                                     with_output_count(0), VmRegisters),
                        links |-> <<>>],
                       Append(LineInstructions, return_instruction(0, "pc"))).self
    IN create_constraints_for_assignment_regs(
           defined, assignment_register_names(defined))

\* the machines whose generated ROM the converter lowers on its own
LoweredMachines == VmMachines \cup LabelMachines \cup NamedMachines

LowerGeneratedRomCalls ==
    {[method |-> "lower_generated_rom", machine |-> m] : m \in LoweredMachines}

\* the converter of convert_machine when it has handled the batches of the
\* ROM: the registers, the instructions, the return instruction, the
\* assignment registers, then the batches
converter_code_lines(m, r) ==
    LET s1 == handle_register_declarations(
                  with_output_count(MaxOf({OutputLen(operations(m)[i]) :
                                              i \in 1..Len(operations(m))})),
                  m.registers)
        d == handle_instruction_defs([self |-> s1, links |-> <<>>], m.instructions)
        ret == handle_instruction_def(d.self,
                   return_instruction(d.self.output_count, d.self.pc_name[1]))
        s2 == create_constraints_for_assignment_regs(
                  ret.self, assignment_register_names(ret.self))
    IN IF s1.abort # "" THEN s1
       ELSE IF d.self.abort # "" THEN d.self
       ELSE handle_batches(s2, r[1])

Calls ==
    LinearizeCalls \cup HandleBatchCalls \cup HandleReturnCalls
    \cup ProcessAssignmentValueCalls \cup LowerRomCalls
    \cup LowerGeneratedRomCalls

CallInit ==
    /\ input = None
    /\ machine = None
    /\ rom = None
    /\ stage = "called"
    /\ panic = ""
    /\ hashSeed = 0
    /\ run = 1
    /\ previous = None
    /\ call \in {Some(c) : c \in Calls}
    /\ returned = None

\* self.linearize(prefix, expr)
Linearize ==
    /\ stage = "called"
    /\ returned = None
    /\ call[1].method = "linearize"
    /\ \E r \in {linearize(call[1].prefix, call[1].expr)} :
        /\ returned' = Some(r)
        /\ panic' = r.abort
    /\ UNCHANGED <<input, machine, rom, stage, hashSeed, run, previous, call>>

\* self.handle_batch(batch): the code lines of the converter afterwards
HandleBatch ==
    /\ stage = "called"
    /\ returned = None
    /\ call[1].method = "handle_batch"
    /\ \E s \in {handle_batch(VmConverter, call[1].batch)} :
        /\ returned' = Some([code_lines |-> s.code_lines, abort |-> s.abort])
        /\ panic' = s.abort
    /\ UNCHANGED <<input, machine, rom, stage, hashSeed, run, previous, call>>

\* self.handle_statement(FunctionStatement::Return(values))
HandleReturn ==
    /\ stage = "called"
    /\ returned = None
    /\ call[1].method = "handle_return"
    /\ \E r \in {handle_statement(ReturnConverter(call[1].declared),
                                    Return(call[1].values))} :
        /\ returned' = Some(r)
        /\ panic' = r.abort
    /\ UNCHANGED <<input, machine, rom, stage, hashSeed, run, previous, call>>

\* self.process_assignment_value(value)
ProcessAssignmentValue ==
    /\ stage = "called"
    /\ returned = None
    /\ call[1].method = "process_assignment_value"
    /\ \E r \in {process_assignment_value(call[1].expr)} :
        /\ returned' = Some(r)
        /\ panic' = r.abort
    /\ UNCHANGED <<input, machine, rom, stage, hashSeed, run, previous, call>>

\* for batch in rom { self.handle_batch(batch) }; self.translate_code_lines():
\* the code lines of the converter and the PIL the translation has pushed
LowerRom ==
    /\ stage = "called"
    /\ returned = None
    /\ call[1].method = "lower_rom"
    /\ \E s \in {translate_code_lines(handle_batches(LineConverter, call[1].rom))} :
        /\ returned' = Some([code_lines |-> s.code_lines,
                             pil |-> SubSeq(s.pil, Len(LineConverter.pil) + 1,
                                            Len(s.pil)),
                             abort |-> s.abort])
        /\ panic' = s.abort
    /\ UNCHANGED <<input, machine, rom, stage, hashSeed, run, previous, call>>

\* generate_machine_rom(machine), then the converter up to the label
\* positions of translate_code_lines: the machine and the ROM of the
\* generation, the code lines and the label positions
LowerGeneratedRom ==
    /\ stage = "called"
    /\ returned = None
    /\ call[1].method = "lower_generated_rom"
    /\ \E g \in {generate_machine_rom(call[1].machine)} :
        IF g.abort # ""
        THEN /\ returned' = Some([machine |-> g.machine, rom |-> g.rom,
                                  code_lines |-> <<>>, label_positions |-> <<>>,
                                  abort |-> g.abort])
             /\ panic' = g.abort
        ELSE \E s \in {converter_code_lines(g.machine, g.rom)} :
             \E l \in {IF s.abort # "" THEN [positions |-> <<>>, abort |-> s.abort]
                        ELSE compute_label_positions(s.code_lines)} :
                 /\ returned' = Some([machine |-> g.machine, rom |-> g.rom,
                                      code_lines |-> s.code_lines,
                                      label_positions |-> l.positions,
                                      abort |-> l.abort])
                 /\ panic' = l.abort
    /\ UNCHANGED <<input, machine, rom, stage, hashSeed, run, previous, call>>

CallNext ==
    Linearize \/ HandleBatch \/ HandleReturn \/ ProcessAssignmentValue
    \/ LowerRom \/ LowerGeneratedRom

CallSpec == CallInit /\ [][CallNext]_vars

(***************************************************************************)
(* Properties of ROM generation. They are stated over the input machine,   *)
(* the ROM and the machine of the current state.                           *)
(***************************************************************************)
\* generate_machine_rom has returned a ROM
RomGenerated == IsSome(rom)

\* the number of functions of the input
FunctionCount == Len(input.callable)

\* the number of batches of the k-th function of the input
BatchCount(k) == Len(input.callable[k].symbol.body)

\* the number of batches of the functions before the k-th
BatchesBefore(k) == SumSeq(Collect([j \in 1..(k - 1) |-> BatchCount(j)]))

\* the operation id the k-th callable has now
OperationIdOf(k) == machine.callable[k].symbol.id[1]

\* the greatest number of declared outputs of a function of the input
MaxOutputs ==
    MaxOf({OutputLen(input.callable[k].symbol) : k \in 1..FunctionCount})

\* the batch of the ROM that batch b of function k became
RomBatch(k, b) == rom[1][2 + BatchesBefore(k) + b]

\* statement i of batch b of function k: in the input, and in the ROM, where
\* the first batch of a function starts with its label
InputStatement(k, b, i) == input.callable[k].symbol.body[b].statements[i]

RomStatement(k, b, i) == RomBatch(k, b).statements[IF b = 1 THEN i + 1 ELSE i]

\* P holds of every statement of every function of the input
EveryStatement(P(_, _, _)) ==
    \A k \in 1..FunctionCount :
        \A b \in 1..BatchCount(k) :
            \A i \in 1..Len(input.callable[k].symbol.body[b].statements) :
                P(k, b, i)

Min(a, b) == IF a < b THEN a ELSE b

\* C1: a machine without a pc register leaves generate_machine_rom with every
\* field unchanged and with no ROM, and leaves convert_machine, given no ROM,
\* unchanged as well; neither step panics.
C1_NoPcMachineIsReturnedUnchanged ==
    ~has_pc(input) => /\ machine = input
                      /\ rom = None
                      /\ stage # "aborted"

\* a machine without a pc, with a callable, a PIL statement and a latch, has
\* gone through both steps
C1_Witness ==
    /\ ~has_pc(input)
    /\ stage = "converted"
    /\ input.callable # <<>>
    /\ input.pil # <<>>
    /\ input.registers # <<>>
    /\ input.latch = None

\* C2: after generate_machine_rom on a machine with a pc, the operation id of
\* the k-th function in iteration order is the length of the ROM when its
\* batches are appended: 2 plus the number of batches of the functions before
\* it. The ids are pairwise distinct, strictly increasing, at least 2 and
\* smaller than the id of the sink.
C2_OperationIdIsRomPosition ==
    RomGenerated =>
        /\ Len(machine.callable) = FunctionCount
        /\ \A k \in 1..FunctionCount :
            /\ machine.callable[k].name = input.callable[k].name
            /\ machine.callable[k].symbol.kind = "Operation"
            /\ machine.callable[k].symbol.id = Some(2 + BatchesBefore(k))
            /\ OperationIdOf(k) >= 2
            /\ OperationIdOf(k) < Len(rom[1]) - 1
            /\ \A j \in 1..(k - 1) : OperationIdOf(j) < OperationIdOf(k)
            /\ RomBatch(k, 1).statements[1] =
                   LabelStatement("_" \o input.callable[k].name)

\* two functions, the first of two batches: the ids are 2 and 4
C2_Witness ==
    /\ RomGenerated
    /\ FunctionCount = 2
    /\ BatchCount(1) = 2
    /\ OperationIdOf(1) = 2
    /\ OperationIdOf(2) = 4

\* the operation ids the callables have now
OperationIds == {OperationIdOf(k) : k \in 1..FunctionCount}

\* C3 as stated: after ROM generation on a machine with a pc and n functions
\* the operation ids are exactly the set {2, ..., n+1}.
C3_OperationIdsArePrefix ==
    RomGenerated => OperationIds = 2..(FunctionCount + 1)

\* C3 amended: the operation ids are n distinct ROM positions between 2 and
\* the sink; they are the set {2, ..., n+1} exactly when every function but
\* the last has a single batch.
C3_OperationIdsArePrefixOfSingleBatches ==
    RomGenerated =>
        /\ Cardinality(OperationIds) = FunctionCount
        /\ OperationIds \subseteq 2..(Len(rom[1]) - 2)
        /\ (OperationIds = 2..(FunctionCount + 1))
               <=> (\A k \in 1..(FunctionCount - 1) : BatchCount(k) = 1)

\* two functions, the first of two batches: the ids leave out 3
C3_Witness ==
    /\ RomGenerated
    /\ FunctionCount = 2
    /\ BatchCount(1) > 1
    /\ 3 \notin OperationIds
    /\ OperationIds # 2..(FunctionCount + 1)

\* the statement after the renaming of the inputs of its function
Renamed(k, b, i) ==
    substitute_name_in_statement_expressions(
        InputStatement(k, b, i), input_substitution(input.callable[k].symbol.inputs))

\* C4: every Return of the ROM has exactly MaxOutputs values: the first
\* min(k, MaxOutputs) of its k values after renaming, in order, then literals
\* Number(0); a statement other than a Return is as the renaming left it.
C4_ReturnsArePaddedToMaxOutputs ==
    RomGenerated =>
        /\ \A b \in 1..Len(rom[1]) :
               \A i \in 1..Len(rom[1][b].statements) :
                   rom[1][b].statements[i].kind = "Return"
                       => Len(rom[1][b].statements[i].values) = MaxOutputs
        /\ EveryStatement(LAMBDA k, b, i :
               IF InputStatement(k, b, i).kind = "Return"
               THEN LET kept == Min(Len(InputStatement(k, b, i).values), MaxOutputs)
                    IN /\ RomStatement(k, b, i).kind = "Return"
                       /\ RomStatement(k, b, i).values =
                              SubSeq(Renamed(k, b, i).values, 1, kept)
                              \o Repeat(Number(0), MaxOutputs - kept)
               ELSE RomStatement(k, b, i) = Renamed(k, b, i))

\* a return of one value in a machine of two outputs has become
\* return _input_0, 0
C4_Witness ==
    /\ RomGenerated
    /\ MaxOutputs = 2
    /\ \E k \in 1..FunctionCount :
           /\ InputStatement(k, BatchCount(k), 1) = Return(<<Reference("x")>>)
           /\ RomBatch(k, BatchCount(k)).statements[Len(RomBatch(k, BatchCount(k)).statements)]
                  = Return(<<Reference("_input_0"), Number(0)>>)

\* the machine has one function of two outputs and one function of one output
OneAndTwoOutputs ==
    /\ FunctionCount = 2
    /\ {OutputLen(input.callable[k].symbol) : k \in 1..FunctionCount} = {1, 2}

\* the return of the function of one output, in the input and in the ROM
SingleOutputFunction ==
    CHOOSE k \in 1..FunctionCount : OutputLen(input.callable[k].symbol) = 1

ReturnOfSingleOutput(batches) ==
    LET last == batches[Len(batches)] IN last.statements[Len(last.statements)]

InputReturnOfSingleOutput ==
    ReturnOfSingleOutput(input.callable[SingleOutputFunction].symbol.body)

RomReturnOfSingleOutput ==
    ReturnOfSingleOutput(
        Collect([b \in 1..BatchCount(SingleOutputFunction) |->
                    RomBatch(SingleOutputFunction, b)]))

\* the number of literals Number(0) at the end of a list of values
TrailingZeros(values) ==
    Len(values) - MaxOf({i \in 1..Len(values) : values[i] # Number(0)})

\* C5 as stated: with one function of 2 outputs and one function of 1
\* output, the return of the 1-output function ends with two zeros.
C5_TwoTrailingZeros ==
    (RomGenerated /\ OneAndTwoOutputs)
        => TrailingZeros(RomReturnOfSingleOutput.values) = 2

\* C5 amended: with one function of 2 outputs and one function of 1 output,
\* the return of the 1-output function has two values: the values it had,
\* then 2 minus their number of zeros; a return of one value ends with one
\* zero.
C5_ZerosUpToTwoValues ==
    (RomGenerated /\ OneAndTwoOutputs) =>
        /\ Len(RomReturnOfSingleOutput.values) = 2
        /\ TrailingZeros(RomReturnOfSingleOutput.values) =
               2 - Min(Len(InputReturnOfSingleOutput.values), 2)
                 + TrailingZeros(SubSeq(InputReturnOfSingleOutput.values, 1,
                                        Min(Len(InputReturnOfSingleOutput.values), 2)))
        /\ Len(InputReturnOfSingleOutput.values) = 1
               => RomReturnOfSingleOutput.values[2] = Number(0)

\* the pair function and a function of one output: one zero follows the value
C5_Witness ==
    /\ RomGenerated
    /\ OneAndTwoOutputs
    /\ Len(InputReturnOfSingleOutput.values) = 1
    /\ TrailingZeros(RomReturnOfSingleOutput.values) = 1

\* C6: the ROM of a machine with a pc starts with the batch [_start:, _reset]
\* ending for Unimplemented and the batch [_jump_to_operation] ending for
\* Label; then come the batches of each function, in iteration order and in
\* their order, the first one after the label _<name>, the last one ending
\* for Label, the other ones ending as they did, the statements in their
\* order; the last batch is [_sink:, _loop] with no reason. The ROM has 3
\* batches more than the functions.
C6_RomShape ==
    RomGenerated =>
        /\ Len(rom[1]) = 3 + BatchesBefore(FunctionCount + 1)
        /\ rom[1][1] = [statements |-> <<LabelStatement("_start"),
                                         InstructionStatement("_reset", <<>>)>>,
                        reason |-> Some({"Unimplemented"})]
        /\ rom[1][2] = [statements |-> <<InstructionStatement("_jump_to_operation", <<>>)>>,
                        reason |-> Some({"Label"})]
        /\ rom[1][Len(rom[1])] =
               [statements |-> <<LabelStatement("_sink"),
                                 InstructionStatement("_loop", <<>>)>>,
                reason |-> None]
        /\ \A k \in 1..FunctionCount :
               \A b \in 1..BatchCount(k) :
                   /\ RomBatch(k, b).reason =
                          IF b = BatchCount(k) THEN Some({"Label"})
                          ELSE input.callable[k].symbol.body[b].reason
                   /\ Len(RomBatch(k, b).statements) =
                          Len(input.callable[k].symbol.body[b].statements)
                          + (IF b = 1 THEN 1 ELSE 0)
                   /\ b = 1 => RomBatch(k, b).statements[1] =
                                   LabelStatement("_" \o input.callable[k].name)
        /\ EveryStatement(LAMBDA k, b, i :
               /\ RomStatement(k, b, i).kind = InputStatement(k, b, i).kind
               /\ InputStatement(k, b, i).kind \in {"Label", "DebugDirective"}
                      => RomStatement(k, b, i) = InputStatement(k, b, i)
               /\ InputStatement(k, b, i).kind = "Instruction"
                      => RomStatement(k, b, i).instruction
                             = InputStatement(k, b, i).instruction
               /\ InputStatement(k, b, i).kind = "Assignment"
                      => RomStatement(k, b, i).lhs_with_reg
                             = InputStatement(k, b, i).lhs_with_reg)

\* two functions; a first batch that ended for Unimplemented still does, and
\* the ROM has 3 batches more than the two functions
C6_Witness ==
    /\ RomGenerated
    /\ FunctionCount = 2
    /\ BatchCount(1) = 2
    /\ input.callable[1].symbol.body[1].reason = Some({"Unimplemented"})
    /\ rom[1][3].reason = Some({"Unimplemented"})
    /\ Len(rom[1][3].statements) = 4
    /\ Len(rom[1]) = 5 + BatchCount(2)

\* the expression new is the expression old with the references to the
\* declared inputs, and nothing else, renamed: a reference to the i-th input
\* (from 0) is a reference to _input_i
RECURSIVE IsRenaming(_, _, _)
IsRenaming(old, new, inputs) ==
    CASE old.tag = "Reference" ->
            IF \E i \in 1..Len(inputs) : inputs[i].name = old.name
            THEN \E i \in 1..Len(inputs) :
                     /\ inputs[i].name = old.name
                     /\ new = Reference("_input_" \o ToString(i - 1))
            ELSE new = old
      [] old.tag = "Number" -> new = old
      [] old.tag = "BinaryOperation" ->
            /\ new.tag = "BinaryOperation"
            /\ new.op = old.op
            /\ IsRenaming(old.left, new.left, inputs)
            /\ IsRenaming(old.right, new.right, inputs)
      [] old.tag \in {"UnaryOperation", "FreeInput"} ->
            /\ new.tag = old.tag
            /\ old.tag = "UnaryOperation" => new.op = old.op
            /\ IsRenaming(old.expr, new.expr, inputs)
      [] old.tag = "FunctionCall" ->
            /\ new.tag = "FunctionCall"
            /\ IsRenaming(old.function, new.function, inputs)
            /\ Len(new.arguments) = Len(old.arguments)
            /\ \A i \in 1..Len(old.arguments) :
                   IsRenaming(old.arguments[i], new.arguments[i], inputs)

\* C7: the renaming of inputs changes only Reference leaves of expressions
\* of the statements of a function: a reference to the i-th declared input
\* of that function becomes _input_i, every other node is unchanged, and the
\* left-hand side of an assignment is unchanged even where it names an input.
C7_RenamingChangesOnlyInputReferences ==
    RomGenerated =>
        EveryStatement(LAMBDA k, b, i :
            LET old == InputStatement(k, b, i)
                new == RomStatement(k, b, i)
                inputs == input.callable[k].symbol.inputs
            IN CASE old.kind = "Assignment" ->
                       /\ new.kind = "Assignment"
                       /\ new.lhs_with_reg = old.lhs_with_reg
                       /\ IsRenaming(old.rhs, new.rhs, inputs)
                 [] old.kind = "Instruction" ->
                       /\ new.kind = "Instruction"
                       /\ new.instruction = old.instruction
                       /\ Len(new.inputs) = Len(old.inputs)
                       /\ \A a \in 1..Len(old.inputs) :
                              IsRenaming(old.inputs[a], new.inputs[a], inputs)
                 [] old.kind = "Return" ->
                       /\ new.kind = "Return"
                       /\ \A a \in 1..Min(Len(old.values), Len(new.values)) :
                              IsRenaming(old.values[a], new.values[a], inputs)
                 [] OTHER -> new = old)

\* the function shadow, whose inputs A and X are named like the registers of
\* its assignment: A <=X= A + X has become A <=X= _input_0 + _input_1
C7_Witness ==
    /\ RomGenerated
    /\ FunctionCount >= 1
    /\ InputStatement(1, 1, 1) =
           AssignmentStatement(<< <<"A", Some("X")>> >>,
               BinaryOperation(Reference("A"), "Add", Reference("X")))
    /\ RomStatement(1, 1, 1) =
           AssignmentStatement(<< <<"A", Some("X")>> >>,
               BinaryOperation(Reference("_input_0"), "Add", Reference("_input_1")))

\* C8: convert_machine after generate_machine_rom is a function of the input
\* machine alone: a second invocation on the same machine, whatever state its
\* hash maps draw, yields the same ROM, the same operation ids and the same
\* PIL statements in the same order (and panics where the first one did).
C8_PipelineIsAFunctionOfTheInput ==
    (run = 2 /\ IsSome(previous)) =>
        /\ stage = "rom_generated" => rom = previous[1].rom
        /\ stage \in {"converted", "aborted"} =>
               /\ stage = previous[1].stage
               /\ rom = previous[1].rom
               /\ machine = previous[1].machine
               /\ machine.callable = previous[1].machine.callable
               /\ machine.pil = previous[1].machine.pil

\* a second invocation with another hash state on a machine of two functions,
\* one of them with an input name declared twice, has converted it
C8_Witness ==
    /\ run = 2
    /\ IsSome(previous)
    /\ hashSeed = 1
    /\ stage = "converted"
    /\ FunctionCount = 2
    /\ \E k \in 1..FunctionCount :
           /\ Len(input.callable[k].symbol.inputs) = 2
           /\ input.callable[k].symbol.inputs[1].name
                  = input.callable[k].symbol.inputs[2].name
    /\ Len(machine.pil) > 1

(***************************************************************************)
(* Properties of the conversion.                                           *)
(***************************************************************************)
\* convert_machine has returned the machine of an input with a pc
Converted == stage = "converted" /\ has_pc(input)

\* the statements convert_machine added to machine.pil: those after the
\* statements of the input and the one of generate_machine_rom
EmittedPil == SubSeq(machine.pil, Len(input.pil) + 2, Len(machine.pil))

\* the plookup identities among the emitted statements
EmittedPlookups ==
    {i \in 1..Len(EmittedPil) : EmittedPil[i].kind = "PlookupIdentity"}

\* the number of plookup statements in the local bodies of the instructions
\* of the input
BodyPlookups ==
    SumSeq(Collect([d \in 1..Len(input.instructions) |->
        IF input.instructions[d].body.kind = "Local"
        THEN Cardinality({i \in 1..Len(input.instructions[d].body.statements) :
                 input.instructions[d].body.statements[i].kind = "PlookupIdentity"})
        ELSE 0]))

\* C9 as stated: the statements the converter emits for a machine with a pc
\* hold exactly one plookup identity, whatever the instruction definitions.
C9_ExactlyOnePlookup ==
    Converted => Cardinality(EmittedPlookups) = 1

\* C9 amended: the emitted statements hold one plookup identity without a
\* selector, the last statement, and one more for each plookup statement of a
\* local instruction body, selected by the flag of its instruction.
C9_OnePlookupPerBodyPlookupAndOne ==
    Converted =>
        /\ Cardinality(EmittedPlookups) = 1 + BodyPlookups
        /\ Len(EmittedPil) \in EmittedPlookups
        /\ \A i \in EmittedPlookups :
               IF i = Len(EmittedPil)
               THEN EmittedPil[i].left.selector = None
               ELSE \E d \in 1..Len(input.instructions) :
                        EmittedPil[i].left.selector =
                            Some(Reference("instr_" \o input.instructions[d].name))

\* two instructions whose bodies are plookups: three plookups are emitted
C9_Witness ==
    /\ Converted
    /\ BodyPlookups = 2
    /\ Cardinality(EmittedPlookups) = 3

\* the names in a set in the order of a BTreeMap
Sorted(names) ==
    Collect([p \in 1..Cardinality(names) |->
        CHOOSE x \in names : Cardinality({y \in names : StrLess(y, x)}) = p - 1])

\* the register declarations the converter is given: those of the input,
\* then one read-only register per input and one assignment register per
\* output
DeclaredRegisters ==
    input.registers
    \o Collect([i \in 1..MaxOf({Len(input.callable[k].symbol.inputs) :
                                   k \in 1..FunctionCount}) |->
           [name |-> "_input_" \o ToString(i - 1), ty |-> "ReadOnly"]])
    \o Collect([i \in 1..MaxOutputs |->
           [name |-> "_output_" \o ToString(i - 1), ty |-> "Assignment"]])

\* the names of the first n declared registers of a type, in order of name
DeclaredNames(ty, n) ==
    Sorted({DeclaredRegisters[i].name : i \in {j \in 1..n : DeclaredRegisters[j].ty = ty}})

\* the witness columns registered for the lookup, in the order of the calls:
\* for the registers, for the instructions, for the assignment registers
RegisteredForRegisters ==
    Flatten(Collect([p \in 1..Len(DeclaredRegisters) |->
        CASE DeclaredRegisters[p].ty = "Pc" -> <<DeclaredRegisters[p].name>>
          [] DeclaredRegisters[p].ty = "Write" ->
                 SeqMap(LAMBDA a : "reg_write_" \o a \o "_" \o DeclaredRegisters[p].name,
                        DeclaredNames("Assignment", p - 1))
          [] OTHER -> <<>>]))

RegisteredForInstruction(d) ==
    <<"instr_" \o d.name>>
    \o SeqMap(LAMBDA q : "instr_" \o d.name \o "_param_" \o q.name,
              SelectSeq(d.inputs, LAMBDA q : q.ty # None))

RegisteredForInstructions ==
    Flatten(SeqMap(RegisteredForInstruction, input.instructions))
    \o <<"instr__jump_to_operation", "instr__reset", "instr__loop", "instr_return">>

RegisteredForAssignment(a) ==
    <<a \o "_const", a \o "_read_free">>
    \o SeqMap(LAMBDA r : "read_" \o a \o "_" \o r,
              DeclaredNames("Write", Len(DeclaredRegisters))
              \o DeclaredNames("Pc", Len(DeclaredRegisters))
              \o DeclaredNames("ReadOnly", Len(DeclaredRegisters)))

RegisteredWitnesses ==
    RegisteredForRegisters
    \o RegisteredForInstructions
    \o Flatten(SeqMap(RegisteredForAssignment,
                      DeclaredNames("Assignment", Len(DeclaredRegisters))))

\* the fixed column of a registered witness column
FixedOf(name) == IF name = pc(input) THEN "p_line" ELSE "p_" \o name

\* the last statement of the converted machine
FinalPlookup == machine.pil[Len(machine.pil)]

\* C10: the final plookup has no selector on either side and lists of equal
\* length; position j of the left list is the witness column and position j
\* of the right list the fixed column of the j-th registered pair: (pc,
\* p_line) first, then (name, p_name) for each call that creates a pair, in
\* the order of the calls.
C10_FinalPlookupListsRegisteredPairs ==
    Converted =>
        /\ FinalPlookup.kind = "PlookupIdentity"
        /\ FinalPlookup.left.selector = None
        /\ FinalPlookup.right.selector = None
        /\ Len(FinalPlookup.left.expressions) = Len(FinalPlookup.right.expressions)
        /\ FinalPlookup.left.expressions[1] = Reference(pc(input))
        /\ FinalPlookup.right.expressions[1] = Reference("p_line")
        /\ FinalPlookup.left.expressions = SeqMap(Reference, RegisteredWitnesses)
        /\ FinalPlookup.right.expressions =
               SeqMap(LAMBDA n : Reference(FixedOf(n)), RegisteredWitnesses)
        /\ \A j \in 2..Len(FinalPlookup.left.expressions) :
               \E i \in 1..Len(EmittedPil) :
                   EmittedPil[i] = PolynomialCommitDeclaration(
                                       FinalPlookup.left.expressions[j].name, None)

\* the vm with two functions, of two inputs and two outputs at most: the
\* fifth pair, after pc and the four write flags of A and B, is that of the
\* first instruction
C10_Witness ==
    /\ Converted
    /\ FunctionCount = 2
    /\ MaxOutputs = 2
    /\ Len(FinalPlookup.left.expressions) > 40
    /\ FinalPlookup.left.expressions[2] = Reference("reg_write_X_A")
    /\ FinalPlookup.right.expressions[2] = Reference("p_reg_write_X_A")
    /\ FinalPlookup.left.expressions[8] = Reference("instr_assert_zero")

\* C11: after convert_machine has completed on a machine with a pc, the latch
\* of the machine is the flag of the return instruction, instr_return,
\* whatever it was on entry; the latch of a machine without a pc is as it was.
C11_LatchIsTheReturnFlag ==
    /\ Converted => machine.latch = Some("instr_return")
    /\ ~has_pc(input) => machine.latch = input.latch

\* a machine with a pc that came with a latch of its own has been converted
C11_Witness ==
    /\ Converted
    /\ input.latch = Some("latch")
    /\ machine.latch = Some("instr_return")

\* the pipeline has come to its end: the machine is converted, or a step
\* has panicked
Finished == stage \in {"converted", "aborted"}

\* the positions <<batch, statement>> of the ROM that hold the label l
LabelPositions(l) ==
    {p \in UNION {{<<b, i>> : i \in 1..Len(rom[1][b].statements)} :
                     b \in 1..Len(rom[1])} :
        rom[1][p[1]].statements[p[2]] = LabelStatement(l)}

\* the names of the labels of the ROM
RomLabels ==
    UNION {{rom[1][b].statements[i].name :
                i \in {j \in 1..Len(rom[1][b].statements) :
                           rom[1][b].statements[j].kind = "Label"}} :
               b \in 1..Len(rom[1])}

\* C12 as stated: the conversion of a ROM in which a label name occurs more
\* than once aborts, be the occurrences in one batch or in several, and a ROM
\* of pairwise distinct label names does not fail for a duplicate label.
C12_DuplicateLabelsAbort ==
    (RomGenerated /\ Finished) =>
        /\ (\E l \in RomLabels : Cardinality(LabelPositions(l)) > 1)
               => stage = "aborted"
        /\ (\A l \in RomLabels : Cardinality(LabelPositions(l)) = 1)
               => panic # "Duplicate label"

\* what holds of the code: the conversion fails for a duplicate label exactly
\* when, being otherwise sound, the ROM holds a label name in two batches
C12_DuplicateLabelsOfTwoBatchesAbort ==
    (RomGenerated /\ Finished) =>
        /\ (\E l \in RomLabels :
                Cardinality({p[1] : p \in LabelPositions(l)}) > 1)
               => stage = "aborted"
        /\ panic = "Duplicate label"
               => \E l \in RomLabels :
                      Cardinality({p[1] : p \in LabelPositions(l)}) > 1

\* a ROM with a label twice in one batch has been converted
C12_Witness ==
    /\ RomGenerated
    /\ stage = "converted"
    /\ \E l \in RomLabels :
           \E p, q \in LabelPositions(l) : p[1] = q[1] /\ p[2] # q[2]

\* a ROM with a label in two batches has failed for the duplicate label
C12_WitnessOfTwoBatches ==
    /\ RomGenerated
    /\ stage = "aborted"
    /\ panic = "Duplicate label"
    /\ Cardinality(LabelPositions("here")) = 2

\* the statement ROM generation appends to the PIL of the machine
OperationIdColumn == machine.pil[Len(input.pil) + 1]

\* C15: once the ROM is generated, its last batch is the one carrying the label
\* _sink; the PIL of the machine has got one more statement, the witness
\* column _operation_id with the query ("hint", sink id), where the sink id
\* is the index of that batch, the length of the ROM minus 1 (its length
\* before the sink was appended); the operation id of the machine is
\* _operation_id.
C15_SinkIdIsTheIndexOfTheSink ==
    RomGenerated =>
        /\ Len(rom[1]) >= 1
        /\ rom[1][Len(rom[1])].statements[1] = LabelStatement("_sink")
        /\ Len(machine.pil) >= Len(input.pil) + 1
        /\ SubSeq(machine.pil, 1, Len(input.pil)) = input.pil
        /\ OperationIdColumn =
               witness_column("_operation_id",
                   Some([kind |-> "Query", query |-> <<"hint", Len(rom[1]) - 1>>]))
        /\ machine.operation_id = Some("_operation_id")

\* a ROM of five batches was generated for a machine that had a PIL statement
\* and an operation id of its own
C15_Witness ==
    /\ RomGenerated
    /\ stage = "rom_generated"
    /\ input.operation_id = Some("operation_id")
    /\ Len(input.pil) = 1
    /\ Len(rom[1]) = 5
    /\ OperationIdColumn.def[1].query = <<"hint", 4>>

\* the statements of the ROM
RomStatements ==
    UNION {{rom[1][b].statements[i] : i \in 1..Len(rom[1][b].statements)} :
               b \in 1..Len(rom[1])}

\* the assignments of the ROM whose right-hand side calls an instruction
FunctionalAssignments ==
    {s \in RomStatements :
        /\ s.kind = "Assignment"
        /\ s.rhs.tag = "FunctionCall"
        /\ s.rhs.function.tag = "Reference"
        /\ \E i \in 1..Len(input.instructions) :
               input.instructions[i].name = s.rhs.function.name}

InstructionNamed(name) ==
    input.instructions[CHOOSE i \in 1..Len(input.instructions) :
                           input.instructions[i].name = name]

\* the output registers the called instruction declares
DeclaredOutputs(s) ==
    LET instr == InstructionNamed(s.rhs.function.name)
    IN IF IsSome(instr.outputs)
       THEN SeqMap(LAMBDA p : p.name, instr.outputs[1])
       ELSE <<>>

DeclaredInputs(s) == InstructionNamed(s.rhs.function.name).inputs

\* the assignment registers of the left-hand side
LhsRegisters(s) == SeqMap(LAMBDA p : p[2][1], s.lhs_with_reg)

\* C14 as stated: the conversion of a ROM aborts whenever the assignment
\* registers on the left-hand side of an assignment from a call of
\* instruction f are not, element by element and in length, f's declared
\* output registers.
C14_LhsRegistersAreTheOutputs ==
    (RomGenerated /\ Finished) =>
        ((\E s \in FunctionalAssignments : LhsRegisters(s) # DeclaredOutputs(s))
            => stage = "aborted")

\* what holds of the code: the conversion aborts when the two lists differ at
\* a position both have, or when the arguments and the left-hand side
\* together are not as many as f's inputs and outputs
C14_CommonPrefixAndArity ==
    (RomGenerated /\ Finished) =>
        ((\E s \in FunctionalAssignments :
             \/ \E i \in 1..Min(Len(LhsRegisters(s)), Len(DeclaredOutputs(s))) :
                    LhsRegisters(s)[i] # DeclaredOutputs(s)[i]
             \/ Len(s.rhs.arguments) + Len(s.lhs_with_reg)
                    # Len(DeclaredInputs(s)) + Len(DeclaredOutputs(s)))
            => stage = "aborted")

\* A, B <=Z, Y= add(x) has been converted, add declaring the one output Z
C14_Witness ==
    /\ RomGenerated
    /\ stage = "converted"
    /\ \E s \in FunctionalAssignments :
           /\ LhsRegisters(s) = <<"Z", "Y">>
           /\ DeclaredOutputs(s) = <<"Z">>
           /\ Len(s.rhs.arguments) = 1

\* A <=X= add(x, y) has aborted the conversion
C14_WitnessOfAbort ==
    /\ RomGenerated
    /\ stage = "aborted"
    /\ \E s \in FunctionalAssignments : LhsRegisters(s) = <<"X">>

\* the call of the method has returned or panicked
Called(method) ==
    /\ IsSome(call)
    /\ call[1].method = method
    /\ IsSome(returned)

RECURSIVE SubExpressions(_)
SubExpressions(e) ==
    {e} \cup
    CASE e.tag = "BinaryOperation" ->
             SubExpressions(e.left) \cup SubExpressions(e.right)
      [] e.tag = "UnaryOperation" -> SubExpressions(e.expr)
      [] e.tag = "FreeInput" -> SubExpressions(e.expr)
      [] e.tag = "FunctionCall" ->
             SubExpressions(e.function)
             \cup UNION {SubExpressions(e.arguments[i]) :
                            i \in 1..Len(e.arguments)}
      [] OTHER -> {}

\* the products among the sub-expressions of e
Products(e) ==
    {s \in SubExpressions(e) : s.tag = "BinaryOperation" /\ s.op = "Mul"}

IsLeaf(e) == e.tag \in {"Reference", "Number"}

\* no symbol occurs in e
IsConstant(e) == \A s \in SubExpressions(e) : s.tag # "Reference"

\* the positions in DeclaredRegisters of the registers of a type
PositionsOf(ty) ==
    {p \in 1..Len(DeclaredRegisters) : DeclaredRegisters[p].ty = ty}

WriteFlag(a, w) ==
    "reg_write_" \o DeclaredRegisters[a].name \o "_" \o DeclaredRegisters[w].name

\* the witness columns and the fixed columns among the emitted statements
EmittedWitnesses ==
    {EmittedPil[i].name :
        i \in {j \in 1..Len(EmittedPil) :
                  EmittedPil[j].kind = "PolynomialCommitDeclaration"}}

EmittedFixed ==
    {EmittedPil[i].name :
        i \in {j \in 1..Len(EmittedPil) :
                  EmittedPil[j].kind = "PolynomialConstantDefinition"}}

\* the products in the polynomial identities among the emitted statements
EmittedProducts ==
    UNION {Products(EmittedPil[i].expr) :
               i \in {j \in 1..Len(EmittedPil) :
                         EmittedPil[j].kind = "PolynomialIdentity"}}

\* the write flag of w through a is there, and conditions an update by a
HasWriteFlag(a, w) ==
    /\ WriteFlag(a, w) \in EmittedWitnesses
    /\ ("p_" \o WriteFlag(a, w)) \in EmittedFixed
    /\ BinaryOperation(Reference(WriteFlag(a, w)), "Mul",
                       Reference(DeclaredRegisters[a].name)) \in EmittedProducts

\* the conversion has failed for the write flag of w through a
MissingWriteFlag(a, w) ==
    /\ stage = "aborted"
    /\ panic = "Register combination or column not found: p_" \o WriteFlag(a, w)

\* C16 as stated: for every write register w and every assignment register a
\* of the machine, in whatever order they are declared and the registers
\* _output_i of ROM generation included, the converted machine has the pair
\* reg_write_<a>_<w> and an update of w conditioned by it, and no conversion
\* fails for a missing write flag.
C16_EveryWriteFlagExists ==
    (RomGenerated /\ Finished) =>
        \A w \in PositionsOf("Write") : \A a \in PositionsOf("Assignment") :
            /\ stage = "converted" => HasWriteFlag(a, w)
            /\ ~MissingWriteFlag(a, w)

\* what holds of the code: the write flag is there exactly for the assignment
\* registers declared before the write register
C16_WriteFlagsOfEarlierRegisters ==
    (RomGenerated /\ stage = "converted") =>
        \A w \in PositionsOf("Write") : \A a \in PositionsOf("Assignment") :
            HasWriteFlag(a, w) <=> a < w

\* A <=X= x + 1 has aborted the conversion of the machine that declares A
\* before X
C16_Witness ==
    /\ RomGenerated
    /\ input.registers[2].name = "A"
    /\ \E w \in PositionsOf("Write") : \E a \in PositionsOf("Assignment") :
           /\ DeclaredRegisters[a].name = "X"
           /\ MissingWriteFlag(a, w)

\* A <=_output_0= x + 1 has aborted the conversion of the machine that
\* declares X before A
C16_WitnessOfOutput ==
    /\ RomGenerated
    /\ input.registers[2].name = "X"
    /\ \E w \in PositionsOf("Write") : \E a \in PositionsOf("Assignment") :
           /\ DeclaredRegisters[a].name = "_output_0"
           /\ MissingWriteFlag(a, w)

\* the value a valuation gives a symbol: valuation k gives the name
\* c1 c2 ... cn the value k * (... + (n - 1) * code(c(n-1)) + n * code(cn)) + n,
\* the sum being over the last four characters
ValueOf(name, k) ==
    LET n == Len(name)
        from == IF n > 4 THEN n - 3 ELSE 1
    IN (k * SumSeq(Collect([i \in 1..(n - from + 1) |->
                       (from + i - 1) * CharCode(SubSeq(name, from + i - 1,
                                                          from + i - 1))]))
        + n) % Modulus

Valuations == {1, 2, 3}

\* the value of a polynomial expression in the field under valuation k, the
\* next value of a symbol being the value of another symbol
RECURSIVE Eval(_, _)
Eval(e, k) ==
    CASE e.tag = "Number" -> e.value % Modulus
      [] e.tag = "Reference" -> ValueOf(e.name, k)
      [] e.tag = "UnaryOperation" ->
             IF e.op = "Minus" THEN (Modulus - Eval(e.expr, k)) % Modulus
             ELSE IF e.op = "Next" /\ e.expr.tag = "Reference"
             THEN ValueOf(e.expr.name \o "_next", k)
             ELSE 0
      [] e.tag = "BinaryOperation" ->
             CASE e.op = "Add" -> (Eval(e.left, k) + Eval(e.right, k)) % Modulus
               [] e.op = "Sub" ->
                      (Eval(e.left, k) + Modulus - Eval(e.right, k)) % Modulus
               [] e.op = "Mul" -> (Eval(e.left, k) * Eval(e.right, k)) % Modulus
               [] OTHER -> 0
      [] e.tag = "FreeInput" -> Eval(e.expr, k)
      [] OTHER -> 0

\* the instructions the converter handles: those of the input, the ones ROM
\* generation embeds, and return
HandledInstructions ==
    input.instructions \o embedded_instructions(input)
    \o <<return_instruction(MaxOutputs, pc(input))>>

\* the updates x' = value in the body of instruction d, as
\* <<instruction flag, value>>
BodyUpdates(d, x) ==
    IF d.body.kind # "Local" THEN <<>>
    ELSE SeqMap(LAMBDA s : <<Reference("instr_" \o d.name), s.expr.right>>,
             SelectSeq(d.body.statements,
                 LAMBDA s : /\ s.kind = "PolynomialIdentity"
                            /\ s.expr.tag = "BinaryOperation"
                            /\ s.expr.op = "Sub"
                            /\ s.expr.left = next_reference(x)))

\* all conditioned updates of the register declared at position p: the write
\* flags for the assignment registers declared before it, then the updates in
\* the bodies of the handled instructions
ConditionedUpdates(p) ==
    (IF DeclaredRegisters[p].ty = "Write"
     THEN SeqMap(LAMBDA a : <<Reference("reg_write_" \o a \o "_"
                                         \o DeclaredRegisters[p].name),
                              Reference(a)>>,
                 DeclaredNames("Assignment", p - 1))
     ELSE <<>>)
    \o Flatten(Collect([d \in 1..Len(HandledInstructions) |->
           BodyUpdates(HandledInstructions[d], DeclaredRegisters[p].name)]))

\* the default update of the register declared at position p
DefaultUpdate(p) ==
    CASE DeclaredRegisters[p].ty = "Pc" ->
             Some(BinaryOperation(Reference(DeclaredRegisters[p].name), "Add", Number(1)))
      [] DeclaredRegisters[p].ty \in {"ReadOnly", "Write"} ->
             Some(Reference(DeclaredRegisters[p].name))
      [] OTHER -> None

\* sum of cond * value, plus (1 - sum of cond) * default when there is one
ExpectedUpdateValue(p, k) ==
    LET cu == ConditionedUpdates(p)
        products == SumSeq(Collect([i \in 1..Len(cu) |->
                        Eval(cu[i][1], k) * Eval(cu[i][2], k)]))
        conds == SumSeq(Collect([i \in 1..Len(cu) |-> Eval(cu[i][1], k)]))
    IN IF cu = <<>> THEN Eval(DefaultUpdate(p)[1], k)
       ELSE IF DefaultUpdate(p) = None THEN products % Modulus
       ELSE (products
             + ((1 + Modulus * Len(cu) - conds) % Modulus)
               * Eval(DefaultUpdate(p)[1], k)) % Modulus

\* the update expressions emitted for the register declared at position p:
\* the definition of <pc>_update for the pc, the right-hand side of
\* (1 - instr__reset) * (x' - rhs) for a read-only register, of x' - rhs for
\* the others
EmittedUpdates(p) ==
    LET name == DeclaredRegisters[p].name
        ty == DeclaredRegisters[p].ty
        statements == {EmittedPil[i] : i \in 1..Len(EmittedPil)}
        updating(e) ==
            /\ e.tag = "BinaryOperation"
            /\ e.op = "Sub"
            /\ e.left = next_reference(name)
    IN CASE ty = "Pc" ->
                {s.expr : s \in {t \in statements :
                    /\ t.kind = "PolynomialDefinition"
                    /\ t.name = name \o "_update"}}
         [] ty = "ReadOnly" ->
                {s.expr.right.right : s \in {t \in statements :
                    /\ t.kind = "PolynomialIdentity"
                    /\ t.expr.tag = "BinaryOperation"
                    /\ t.expr.op = "Mul"
                    /\ t.expr.left = ExprSub(Number(1), Reference("instr__reset"))
                    /\ updating(t.expr.right)}}
         [] OTHER ->
                {s.expr.right : s \in {t \in statements :
                    /\ t.kind = "PolynomialIdentity"
                    /\ updating(t.expr)}}

\* C17: in a converted machine, a register with neither a default update nor
\* a conditioned update has no update identity; every other register has
\* one, whose right-hand side has, under every valuation, the value of the
\* default update U when there are no conditioned updates, of the sum of
\* cond * value over the conditioned updates when there is no default, and of
\* that sum plus (1 - sum of cond) * U when there are both. The conditioned
\* updates are the write flags and the updates in the bodies of all
\* instructions, the embedded ones and return included.
C17_UpdateExpression ==
    (RomGenerated /\ stage = "converted") =>
        \A p \in 1..Len(DeclaredRegisters) :
            IF ConditionedUpdates(p) = <<>> /\ DefaultUpdate(p) = None
            THEN EmittedUpdates(p) = {}
            ELSE /\ Cardinality(EmittedUpdates(p)) = 1
                 /\ \A rhs \in EmittedUpdates(p) : \A k \in Valuations :
                        Eval(rhs, k) = ExpectedUpdateValue(p, k)

\* a machine has been converted in which all four cases happen: pc and A with
\* conditioned updates and a default, X with a conditioned update only,
\* _input_0 with a default only, _output_0 with neither
C17_Witness ==
    /\ RomGenerated
    /\ stage = "converted"
    /\ Len(input.instructions) = 4
    /\ \E p \in PositionsOf("Write") : Len(ConditionedUpdates(p)) = 4
    /\ \E p \in PositionsOf("Pc") : Len(ConditionedUpdates(p)) = 4
    /\ \E p \in PositionsOf("Assignment") :
           Len(ConditionedUpdates(p)) = 1 /\ Cardinality(EmittedUpdates(p)) = 1
    /\ \E p \in PositionsOf("Assignment") :
           ConditionedUpdates(p) = <<>> /\ EmittedUpdates(p) = {}
    /\ \E p \in PositionsOf("ReadOnly") :
           ConditionedUpdates(p) = <<>> /\ Cardinality(EmittedUpdates(p)) = 1

(***************************************************************************)
(* Properties of the converter's methods, stated over a call and what it   *)
(* returned.                                                               *)
(***************************************************************************)
\* the call of the method has returned without a panic
Returned(method) ==
    /\ IsSome(call)
    /\ call[1].method = method
    /\ IsSome(returned)
    /\ returned[1].abort = ""

\* C13 as stated: whenever linearize returns, no sub-expression of the returned
\* expression is a product of two non-leaf expressions, nor a product of two
\* non-constant expressions, also when the input has a product under a unary
\* operator or inside a function call.
C13_LinearizedDepthAtMostOne ==
    Returned("linearize") =>
        \A p \in Products(returned[1].expr) :
            /\ IsLeaf(p.left) \/ IsLeaf(p.right)
            /\ IsConstant(p.left) \/ IsConstant(p.right)

\* what holds of the code: every product of the returned expression stands, in
\* the input, under a unary operator or inside a function call; a returned
\* expression made of sums and differences of leaves holds no product
C13_ProductsOnlyUnderOtherForms ==
    Returned("linearize") =>
        \A p \in Products(returned[1].expr) :
            \E s \in SubExpressions(call[1].expr) :
                /\ s.tag \in {"UnaryOperation", "FunctionCall"}
                /\ p \in SubExpressions(s)

\* linearize has returned the negated product of two sums as it was
C13_Witness ==
    /\ Returned("linearize")
    /\ call[1].expr = UnaryOperation("Minus", ExprProductOfSums)
    /\ returned[1].expr = call[1].expr
    /\ returned[1].pil = <<>>

\* linearize has replaced a product of two sums by a reference
C13_WitnessOfProduct ==
    /\ Returned("linearize")
    /\ \E p \in Products(call[1].expr) : ~IsLeaf(p.left) /\ ~IsLeaf(p.right)
    /\ returned[1].expr = Reference("instr_foo_pc_update_2")

\* the positions of the statements of the batch that contribute write
\* registers, values or instructions to the code line
Contributors(batch) ==
    {i \in 1..Len(batch.statements) :
        batch.statements[i].kind \in {"Assignment", "Instruction", "Return"}}

\* the panics of the fold of handle_batch
FoldAssertions ==
    {"assertion failed: acc.write_regs.is_empty()",
     "assertion failed: acc.value.is_empty()",
     "assertion failed: acc.instructions.is_empty()"}

\* the labels and the debug directives of the statements of the batch
LabelsOf(batch) ==
    {batch.statements[i].name :
        i \in {j \in 1..Len(batch.statements) : batch.statements[j].kind = "Label"}}

DirectivesOf(batch) ==
    SeqMap(LAMBDA s : s.directive,
           SelectSeq(batch.statements, LAMBDA s : s.kind = "DebugDirective"))

\* the one code line pushed carries the labels and directives of the batch
PushedUnion ==
    /\ returned[1].abort = ""
    /\ Len(returned[1].code_lines) = 1
    /\ returned[1].code_lines[1].labels = LabelsOf(call[1].batch)
    /\ returned[1].code_lines[1].debug_directives = DirectivesOf(call[1].batch)

\* C18 as stated: handle_batch succeeds on every batch (of at least one
\* statement) in which at most one statement contributes write registers,
\* values or instructions, wherever the labels and debug directives stand,
\* and the code line it pushes carries all labels and debug directives of the
\* batch; it fails in its fold only if two statements contribute.
C18_FoldFailsOnlyOnTwoContributors ==
    Called("handle_batch") =>
        /\ (call[1].batch.statements # <<>>
             /\ Cardinality(Contributors(call[1].batch)) <= 1) => PushedUnion
        /\ returned[1].abort \in FoldAssertions
               => Cardinality(Contributors(call[1].batch)) >= 2

\* what holds of the code: the fold fails exactly when a statement that
\* contributes is followed by any statement, and the code line of a batch it
\* accepts carries all labels and debug directives
C18_FoldFailsAfterAContributor ==
    Called("handle_batch") =>
        IF call[1].batch.statements = <<>>
        THEN returned[1].abort = "unexpected empty batch"
        ELSE IF \E i \in Contributors(call[1].batch) :
                    i < Len(call[1].batch.statements)
        THEN returned[1].abort \in FoldAssertions
        ELSE PushedUnion

\* the batch assert_zero x; .debug loc has failed in the fold
C18_Witness ==
    /\ Called("handle_batch")
    /\ call[1].batch.statements =
           << InstructionStatement("assert_zero", <<Reference("x")>>),
              DebugDirective("loc") >>
    /\ returned[1].abort = "assertion failed: acc.value.is_empty()"

\* the batch here: .debug loc; assert_zero x has become a code line
C18_WitnessOfUnion ==
    /\ Called("handle_batch")
    /\ call[1].batch.statements =
           << LabelStatement("here"), DebugDirective("loc"),
              InstructionStatement("assert_zero", <<Reference("x")>>) >>
    /\ PushedUnion
    /\ returned[1].code_lines[1].instructions # <<>>

WrongNumberOfArguments ==
    "Called instruction return with the wrong number of arguments"

\* C19 as stated: a Return of O values is lowered as a call of the return
\* instruction and passes the arity check of handle_instruction, the return
\* instruction being declared with O + 1 inputs.
C19_ReturnPassesWithOPlusOneInputs ==
    (Called("handle_return") /\ call[1].declared = Len(call[1].values) + 1) =>
        /\ returned[1].abort = ""
        /\ returned[1].line.instructions = << <<"return", <<>> >> >>

\* C19, amended: a Return of O values is lowered as a call of the return
\* instruction, and passes the arity check of handle_instruction, exactly
\* when the return instruction is declared with O inputs; with any other
\* number of inputs, O + 1 among them, it fails that check.
C19_ReturnPassesWithOInputs ==
    Called("handle_return") =>
        IF call[1].declared = Len(call[1].values)
        THEN /\ returned[1].abort = ""
             /\ returned[1].line.instructions = << <<"return", <<>> >> >>
             /\ Len(returned[1].line.value) = Len(call[1].values)
        ELSE returned[1].abort = WrongNumberOfArguments

\* a Return of two values has passed the check of a return instruction of two
\* inputs
C19_Witness ==
    /\ Called("handle_return")
    /\ Len(call[1].values) = 2
    /\ call[1].declared = 2
    /\ returned[1].abort = ""

\* a return instruction of three inputs has refused a Return of two values
C19_WitnessOfOPlusOne ==
    /\ Called("handle_return")
    /\ Len(call[1].values) = 2
    /\ call[1].declared = 3
    /\ returned[1].abort = WrongNumberOfArguments

\* in the pipeline, no Return of a generated ROM fails the arity check
C19_NoReturnOfARomFailsTheCheck == panic # WrongNumberOfArguments

\* the expression reduces to a single (f, Constant) pair: a number, the
\* negation of such an expression, or the product of two of them
RECURSIVE SingleConstant(_)
SingleConstant(e) ==
    CASE e.tag = "Number" -> TRUE
      [] e.tag = "UnaryOperation" -> e.op = "Minus" /\ SingleConstant(e.expr)
      [] e.tag = "BinaryOperation" ->
             e.op = "Mul" /\ SingleConstant(e.left) /\ SingleConstant(e.right)
      [] OTHER -> FALSE

\* the expression is built from register references, numbers, free inputs, +,
\* binary -, unary minus, and products one side of which is a single constant
RECURSIVE Reducible(_)
Reducible(e) ==
    CASE e.tag \in {"Reference", "Number", "FreeInput"} -> TRUE
      [] e.tag = "UnaryOperation" -> e.op = "Minus" /\ Reducible(e.expr)
      [] e.tag = "BinaryOperation" ->
             /\ e.op \in {"Add", "Sub", "Mul"}
             /\ Reducible(e.left)
             /\ Reducible(e.right)
             /\ e.op = "Mul" => SingleConstant(e.left) \/ SingleConstant(e.right)
      [] OTHER -> FALSE

\* the value of a list of (coefficient, component) pairs under valuation k:
\* Register(r) is valued as r, Constant as 1, FreeInput(e) as e
WeightedSum(pairs, k) ==
    SumSeq(Collect([i \in 1..Len(pairs) |->
        pairs[i][1] * (CASE pairs[i][2].kind = "Register" ->
                                ValueOf(pairs[i][2].name, k)
                         [] pairs[i][2].kind = "Constant" -> 1
                         [] pairs[i][2].kind = "FreeInput" ->
                                Eval(pairs[i][2].expr, k))])) % Modulus

\* the pairs with every coefficient multiplied by f in the field
Scaled(f, pairs) ==
    Collect([i \in 1..Len(pairs) |-> <<(f * pairs[i][1]) % Modulus, pairs[i][2]>>])

\* C20: on every expression built from register references, numbers, free
\* inputs, +, binary -, unary minus and products with a side that reduces to
\* a single constant, process_assignment_value returns a list of pairs whose
\* weighted sum is the value of the expression in the field under every
\* valuation; the list of a sum is the list of the left side followed by the
\* list of the right side, that of a difference the left list followed by the
\* right list with negated coefficients, equal components staying apart; the
\* list of a product is the list of the non-constant side with every
\* coefficient multiplied by the constant.
C20_AffineReducer ==
    (Called("process_assignment_value") /\ Reducible(call[1].expr)) =>
        LET e == call[1].expr
            left == process_assignment_value(e.left).value
            right == process_assignment_value(e.right).value
        IN /\ returned[1].abort = ""
           /\ \A k \in Valuations :
                  WeightedSum(returned[1].value, k) = Eval(e, k)
           /\ e.tag = "BinaryOperation" =>
                  returned[1].value =
                      CASE e.op = "Add" -> left \o right
                        [] e.op = "Sub" -> left \o Scaled(Modulus - 1, right)
                        [] e.op = "Mul" ->
                               IF SingleConstant(e.left)
                               THEN Scaled(Eval(e.left, 1), right)
                               ELSE Scaled(Eval(e.right, 1), left)

\* (X - X) * 3 has become 3 * X and (-3) * X, the two terms in X apart
C20_Witness ==
    /\ Called("process_assignment_value")
    /\ call[1].expr =
           BinaryOperation(
               BinaryOperation(Reference("X"), "Sub", Reference("X")),
               "Mul", Number(3))
    /\ returned[1].abort = ""
    /\ returned[1].value =
           << <<3, ComponentRegister("X")>>,
              <<Modulus - 3, ComponentRegister("X")>> >>

(***************************************************************************)
(* Properties of the translation of the code lines, stated over the code   *)
(* lines of the converter and the PIL the translation has pushed.          *)
(***************************************************************************)
\* the ROM has been lowered without a panic
Lowered == Returned("lower_rom")

\* the indices of the code lines, from 0
LineIndices == 0..(Len(returned[1].code_lines) - 1)

CodeLineAt(i) == returned[1].code_lines[i + 1]

\* the array of the fixed column of that name
FixedArray(name) ==
    (CHOOSE s \in {returned[1].pil[j] : j \in 1..Len(returned[1].pil)} :
        s.kind = "PolynomialConstantDefinition" /\ s.name = name).def

\* the value of the fixed column at row i: the listed value, or the repeated
\* one after the listed ones
FixedAt(name, i) ==
    LET array == FixedArray(name)
    IN IF i < Len(array.value) THEN array.value[i + 1].value
       ELSE array.repeated[1].value

\* the pairs of the value line i has for assignment register a
LineValue(i, a) ==
    LET value == CodeLineAt(i).value
    IN IF \E j \in 1..Len(value) : value[j].key = a
       THEN value[CHOOSE j \in 1..Len(value) : value[j].key = a].value
       ELSE <<>>

\* the sum in the field of the coefficients of the pairs whose component
\* satisfies P
CoefficientSum(pairs, P(_)) ==
    SumSeq(Collect([j \in 1..Len(pairs) |->
        IF P(pairs[j][2]) THEN pairs[j][1] ELSE 0])) % Modulus

AssignmentRegisters == {"X", "Y", "Z"}

ReadableRegisters == {"A", "B", "pc"}

\* C21: after the translation, for every line i, assignment register a and
\* readable register r, p_read_<a>_<r>[i] is the sum in the field of the
\* coefficients of the Register(r) pairs of the value of line i for a, and
\* p_<a>_const[i] the sum of the coefficients of its Constant pairs; both
\* are 0 when there is no such pair, and the value A - A gives
\* p_read_<a>_A[i] = 0.
C21_ReadAndConstantCoefficients ==
    Lowered =>
        \A i \in LineIndices : \A a \in AssignmentRegisters :
            /\ \A r \in ReadableRegisters :
                   FixedAt("p_read_" \o a \o "_" \o r, i) =
                       CoefficientSum(LineValue(i, a),
                           LAMBDA c : c = ComponentRegister(r))
            /\ FixedAt("p_" \o a \o "_const", i) =
                   CoefficientSum(LineValue(i, a), LAMBDA c : c = ComponentConstant)

\* here: A <=X= A - A; A <=X= A + 3 + A has been translated: the column
\* p_read_X_A is 0, 2 and p_X_const is 0, 3
C21_Witness ==
    /\ Lowered
    /\ Len(returned[1].code_lines) = 2
    /\ LineValue(0, "X") = << <<1, ComponentRegister("A")>>,
                               <<Modulus - 1, ComponentRegister("A")>> >>
    /\ Len(LineValue(1, "X")) = 3
    /\ FixedAt("p_read_X_A", 0) = 0
    /\ FixedAt("p_read_X_A", 1) = 2
    /\ FixedAt("p_X_const", 1) = 3

\* the names of the instructions the lowering converter knows
LineInstructionNames == btree_keys(LineConverter.instructions)

\* the names of the literal parameters of that instruction
LiteralParams(name) ==
    literal_arg_names(
        LineConverter.instructions[btree_get(LineConverter.instructions, name)].value)

\* the calls (name, literal arguments) on line i
CallsOn(i) ==
    {CodeLineAt(i).instructions[k] : k \in 1..Len(CodeLineAt(i).instructions)}

\* the indices of the code lines whose label set contains L
LinesLabelled(L) == {l \in LineIndices : L \in CodeLineAt(l).labels}

\* the instruction statements of batch i (from 0) of the ROM that was lowered
InstructionStatementsOf(i) ==
    {s \in Range(call[1].rom[i + 1].statements) : s.kind = "Instruction"}

\* the labels the batches of the ROM carry
LabelsOfTheRom ==
    UNION {{s.name : s \in {t \in Range(call[1].rom[k].statements) :
                                 t.kind = "Label"}} :
           k \in 1..Len(call[1].rom)}

\* the label arguments of the instruction calls of the ROM
LabelArguments ==
    UNION {{s.inputs[1].name : s \in {t \in Range(call[1].rom[k].statements) :
                t.kind = "Instruction" /\ t.instruction = "jump"}} :
           k \in 1..Len(call[1].rom)}

\* C22: for every instruction call on line i with a label argument L at
\* parameter arg, p_instr_<name>_param_<arg>[i] is the index of the one code
\* line whose label set contains L, and for a number argument it is the
\* number recorded, which is the negated number for a signed argument
\* written as unary minus of a number; p_instr_<name>[i] is 1 exactly on the
\* lines that call the instruction; a label argument naming a label on no
\* code line aborts.
C22_LiteralArgumentColumns ==
    /\ Lowered =>
           \A i \in LineIndices :
               /\ \A name \in Range(LineInstructionNames) :
                      FixedAt("p_instr_" \o name, i) =
                          IF \E c \in CallsOn(i) : c[1] = name THEN 1 ELSE 0
               /\ \A c \in CallsOn(i) : \A k \in 1..Len(c[2]) :
                      LET column == "p_instr_" \o c[1] \o "_param_"
                                        \o LiteralParams(c[1])[k]
                      IN IF c[2][k].kind = "LabelRef"
                         THEN /\ Cardinality(LinesLabelled(c[2][k].name)) = 1
                              /\ FixedAt(column, i) \in LinesLabelled(c[2][k].name)
                         ELSE FixedAt(column, i) = c[2][k].value
               /\ \A s \in InstructionStatementsOf(i) :
                      s.instruction = "push" =>
                          FixedAt("p_instr_push_param_n", i) =
                              IF s.inputs[1].tag = "Number" THEN s.inputs[1].value
                              ELSE (Modulus - s.inputs[1].expr.value) % Modulus
    /\ Called("lower_rom") =>
           \A L \in LabelArguments \ LabelsOfTheRom :
               /\ returned[1].abort # ""
               /\ Len(call[1].rom) = 1 =>
                      returned[1].abort = L \o " not found in labels"

\* jump here; here: A <=X= A - A has been translated: the parameter column
\* of jump holds 1, the index of the line labelled here, on line 0
C22_Witness ==
    /\ Lowered
    /\ Len(returned[1].code_lines) = 2
    /\ CodeLineAt(0).instructions = << <<"jump", <<LabelRef("here")>> >> >>
    /\ LinesLabelled("here") = {1}
    /\ FixedAt("p_instr_jump_param_l", 0) = 1
    /\ FixedAt("p_instr_jump", 0) = 1
    /\ FixedAt("p_instr_jump", 1) = 0

\* push -3; push 3 has been translated: the parameter column holds the
\* negated number on line 0 and the number on line 1
C22_WitnessOfSigned ==
    /\ Lowered
    /\ Len(returned[1].code_lines) = 2
    /\ FixedAt("p_instr_push_param_n", 0) = Modulus - 3
    /\ FixedAt("p_instr_push_param_n", 1) = 3

\* jump nowhere has aborted the translation
C22_WitnessOfMissingLabel ==
    /\ Called("lower_rom")
    /\ "nowhere" \in LabelArguments
    /\ returned[1].abort = "nowhere not found in labels"

\* line i records at least one register write through assignment register a
WritesThrough(i, a) ==
    \E k \in 1..Len(CodeLineAt(i).write_regs) :
        /\ CodeLineAt(i).write_regs[k].key = a
        /\ CodeLineAt(i).write_regs[k].value # <<>>

\* the sum of the free-input coefficients of the value line i has for a
FreeInputSum(i, a) ==
    CoefficientSum(LineValue(i, a), LAMBDA c : c.kind = "FreeInput")

\* C26: on every code line i with an instruction call that records a register
\* write through assignment register a, p_<a>_read_free[i] is 1 after the
\* translation whatever free-input coefficient the line has accumulated for
\* a; on a line without an instruction call it is the sum of the free-input
\* coefficients of the value of the line for a.
C26_ReadFreeOfInstructionLines ==
    Lowered =>
        \A i \in LineIndices : \A a \in AssignmentRegisters :
            /\ (CodeLineAt(i).instructions # <<>> /\ WritesThrough(i, a)) =>
                   FixedAt("p_" \o a \o "_read_free", i) = 1
            /\ CodeLineAt(i).instructions = <<>> =>
                   FixedAt("p_" \o a \o "_read_free", i) = FreeInputSum(i, a)

\* A <=X= dbl(2 * ${ x }); A <=X= ${ x } + ${ x' } has been translated: the
\* line of the call has accumulated 2 and holds 1, the other line holds 2
C26_Witness ==
    /\ Lowered
    /\ Len(returned[1].code_lines) = 2
    /\ CodeLineAt(0).instructions # <<>>
    /\ WritesThrough(0, "X")
    /\ FreeInputSum(0, "X") = 2
    /\ FixedAt("p_X_read_free", 0) = 1
    /\ CodeLineAt(1).instructions = <<>>
    /\ FixedAt("p_X_read_free", 1) = 2

\* the witness column <a>_free_value the translation has pushed
FreeValueColumn(a) ==
    CHOOSE s \in Range(returned[1].pil) :
        s.kind = "PolynomialCommitDeclaration" /\ s.name = a \o "_free_value"

\* the patterns of the match arms of the prover query of <a>_free_value, in
\* the order of the arms; none when the column has no query
ArmPatterns(a) ==
    IF FreeValueColumn(a).def = None THEN <<>>
    ELSE Collect([k \in 1..Len(FreeValueColumn(a).def[1].arms) |->
             FreeValueColumn(a).def[1].arms[k].pattern])

\* the number of free inputs in the value line i has for a
FreeInputsOn(i, a) ==
    Cardinality({j \in 1..Len(LineValue(i, a)) : LineValue(i, a)[j][2].kind = "FreeInput"})

\* one pattern i per free input of line i, lines in increasing order
RECURSIVE PatternsFrom(_, _)
PatternsFrom(i, a) ==
    IF i >= Len(returned[1].code_lines) THEN <<>>
    ELSE Repeat(i, FreeInputsOn(i, a)) \o PatternsFrom(i + 1, a)

\* C29 as stated: for every assignment register the arms of the free-value
\* query have pairwise distinct patterns, each the index of a code line
\* whose value for the register contains a free input, in strictly
\* increasing order; a register with no free input on any line gets a
\* free-value witness column with no query.
C29_ArmPatternsStrictlyIncrease ==
    Lowered =>
        \A a \in AssignmentRegisters :
            /\ \A k \in 1..Len(ArmPatterns(a)) :
                   /\ ArmPatterns(a)[k] \in LineIndices
                   /\ FreeInputsOn(ArmPatterns(a)[k], a) > 0
                   /\ \A l \in 1..(k - 1) : ArmPatterns(a)[l] < ArmPatterns(a)[k]
            /\ (\A i \in LineIndices : FreeInputsOn(i, a) = 0) =>
                   FreeValueColumn(a).def = None

\* C29, what the translation does: the query of an assignment register has
\* one arm per free input of its values, with the index of the line as the
\* pattern, lines in increasing order and the free inputs of one line next
\* to each other with the same pattern; a register with no free input on
\* any line gets a free-value witness column with no query.
C29_OneArmPerFreeInput ==
    Lowered =>
        \A a \in AssignmentRegisters :
            /\ ArmPatterns(a) = PatternsFrom(0, a)
            /\ (\A i \in LineIndices : FreeInputsOn(i, a) = 0) <=>
                   FreeValueColumn(a).def = None

\* A <=X= ${ x } + ${ x' } has been translated on its own: the query of
\* X_free_value has two arms with pattern 0, Y_free_value has no query
C29_Witness ==
    /\ Lowered
    /\ Len(returned[1].code_lines) = 1
    /\ FreeInputsOn(0, "X") = 2
    /\ ArmPatterns("X") = <<0, 0>>
    /\ FreeValueColumn("Y").def = None

\* two lines with one free input each for X have been translated: the
\* patterns are 0, 1
C29_WitnessOfTwoLines ==
    /\ Lowered
    /\ FreeInputsOn(0, "X") = 1
    /\ ArmPatterns("X") = <<0, 1>>

(***************************************************************************)
(* Properties of one call of the linearizer.                               *)
(***************************************************************************)
\* e is made of +, - and * over leaves
RECURSIVE IsArithmetic(_)
IsArithmetic(e) ==
    \/ IsLeaf(e)
    \/ /\ e.tag = "BinaryOperation"
       /\ e.op \in {"Add", "Sub", "Mul"}
       /\ IsArithmetic(e.left)
       /\ IsArithmetic(e.right)

\* the number of * nodes of an expression made of +, - and * over leaves
RECURSIVE CountProducts(_)
CountProducts(e) ==
    IF IsLeaf(e) THEN 0
    ELSE CountProducts(e.left) + CountProducts(e.right)
         + (IF e.op = "Mul" THEN 1 ELSE 0)

\* the name of the definition after which k definitions come first
IntermediateName(P, k) == IF k = 0 THEN P ELSE P \o "_" \o ToString(k)

\* e with every * node replaced by a reference to its definition, when
\* base definitions come before those of e in post-order
RECURSIVE Replaced(_, _, _)
Replaced(P, e, base) ==
    IF IsLeaf(e) THEN e
    ELSE IF e.op = "Mul"
    THEN Reference(IntermediateName(P,
             base + CountProducts(e.left) + CountProducts(e.right)))
    ELSE BinaryOperation(Replaced(P, e.left, base), e.op,
                         Replaced(P, e.right, base + CountProducts(e.left)))

\* the definitions of the * nodes of e in post-order: those of the left
\* operand, those of the right operand, then that of the node
RECURSIVE PostOrderDefinitions(_, _, _)
PostOrderDefinitions(P, e, base) ==
    IF IsLeaf(e) THEN <<>>
    ELSE PostOrderDefinitions(P, e.left, base)
         \o PostOrderDefinitions(P, e.right, base + CountProducts(e.left))
         \o (IF e.op = "Mul"
             THEN << PolynomialDefinition(
                         IntermediateName(P, base + CountProducts(e.left)
                                                  + CountProducts(e.right)),
                         BinaryOperation(
                             Replaced(P, e.left, base), "Mul",
                             Replaced(P, e.right, base + CountProducts(e.left)))) >>
             ELSE <<>>)

\* (X + 2) * X
ExprSumTimesLeaf ==
    BinaryOperation(BinaryOperation(Reference("X"), "Add", Number(2)), "Mul",
                    Reference("X"))

\* C24: one call of the linearizer with prefix P on an expression made of
\* +, - and * over leaves emits one polynomial definition per * node, in
\* post-order, named P for the first and P_k for the k-th after it, so the
\* names are pairwise distinct; the body of each is the product of the two
\* linearized operands and the * node is replaced by a reference to its
\* definition; (a + b) * c emits one definition, named P, and returns a
\* single reference.
C24_OneDefinitionPerProduct ==
    (Called("linearize") /\ IsArithmetic(call[1].expr)) =>
        LET P == call[1].prefix
            pil == returned[1].pil
        IN /\ returned[1].abort = ""
           /\ Len(pil) = CountProducts(call[1].expr)
           /\ \A k \in 1..Len(pil) :
                  /\ pil[k].kind = "PolynomialDefinition"
                  /\ pil[k].name = IF k = 1 THEN P ELSE P \o "_" \o ToString(k - 1)
                  /\ \A l \in 1..Len(pil) : pil[l].name = pil[k].name => l = k
           /\ pil = PostOrderDefinitions(P, call[1].expr, 0)
           /\ returned[1].expr = Replaced(P, call[1].expr, 0)
           /\ call[1].expr = ExprSumTimesLeaf =>
                  /\ pil = << PolynomialDefinition(P, ExprSumTimesLeaf) >>
                  /\ returned[1].expr = Reference(P)

\* (X * 2) * (X * X) has been linearized: three definitions, named P, P_1
\* and P_2, the last the product of the references to the first two
C24_Witness ==
    /\ Returned("linearize")
    /\ IsArithmetic(call[1].expr)
    /\ CountProducts(call[1].expr) = 3
    /\ Len(returned[1].pil) = 3
    /\ returned[1].pil[1].name = call[1].prefix
    /\ returned[1].pil[2].name = call[1].prefix \o "_1"
    /\ returned[1].pil[3] =
           PolynomialDefinition(call[1].prefix \o "_2",
               BinaryOperation(Reference(call[1].prefix), "Mul",
                               Reference(call[1].prefix \o "_1")))
    /\ returned[1].expr = Reference(call[1].prefix \o "_2")

\* (X + 2) * X has been linearized
C24_WitnessOfSumTimesLeaf ==
    /\ Returned("linearize")
    /\ call[1].expr = ExprSumTimesLeaf
    /\ returned[1].expr = Reference(call[1].prefix)

\* the top-level form of e is not +, - or *
IsOtherForm(e) ==
    ~(e.tag = "BinaryOperation" /\ e.op \in {"Add", "Sub", "Mul"})

\* C25 as stated: for every expression whose top-level form is not +, - or
\* *, a binary operation with another operator included, the linearizer
\* returns the expression unchanged, emits no polynomial definition and
\* does not abort.
C25_OtherFormsAreReturnedUnchanged ==
    (Called("linearize") /\ IsOtherForm(call[1].expr)) =>
        /\ returned[1].abort = ""
        /\ returned[1].expr = call[1].expr
        /\ returned[1].pil = <<>>

\* C25, what the linearizer does: an expression that is not a binary
\* operation is returned unchanged without a polynomial definition and
\* without an abort; a binary operation with an operator other than +, -
\* and * aborts, the operator not being supported.
C25_OtherBinaryOperationsAbort ==
    (Called("linearize") /\ IsOtherForm(call[1].expr)) =>
        IF call[1].expr.tag = "BinaryOperation"
        THEN returned[1].abort = "not implemented: " \o call[1].expr.op
                                     \o " is not supported when linearizing"
        ELSE /\ returned[1].abort = ""
             /\ returned[1].expr = call[1].expr
             /\ returned[1].pil = <<>>

\* X ** 2 has been handed to the linearizer, which has aborted
C25_Witness ==
    /\ Called("linearize")
    /\ call[1].expr = BinaryOperation(Reference("X"), "Pow", Number(2))
    /\ returned[1].abort # ""

\* -((X + 2) * (X - 2)) has been handed to the linearizer, which has
\* returned it
C25_WitnessOfUnary ==
    /\ Returned("linearize")
    /\ call[1].expr = UnaryOperation("Minus", ExprProductOfSums)
    /\ returned[1].expr = call[1].expr
    /\ returned[1].pil = <<>>

(***************************************************************************)
(* The order in which the converter goes through the registers.            *)
(***************************************************************************)
\* the names of the declared registers of the types
NamesOf(types) ==
    {DeclaredRegisters[p].name :
        p \in {q \in 1..Len(DeclaredRegisters) : DeclaredRegisters[q].ty \in types}}

\* the names of a set in the order in which the registers were declared
InDeclarationOrder(names) ==
    SeqMap(LAMBDA d : d.name, SelectSeq(DeclaredRegisters, LAMBDA d : d.name \in names))

\* the register whose update identity the statement is, "" if it is none:
\* r' - update, or (1 - instr__reset) * (r' - update)
UpdatedRegister(s) ==
    LET next(e) == /\ e.tag = "UnaryOperation"
                   /\ e.op = "Next"
                   /\ e.expr.tag = "Reference"
        update(e) == /\ e.tag = "BinaryOperation"
                     /\ e.op = "Sub"
                     /\ next(e.left)
    IN IF s.kind # "PolynomialIdentity" THEN ""
       ELSE IF update(s.expr) THEN s.expr.left.expr.name
       ELSE IF /\ s.expr.tag = "BinaryOperation"
               /\ s.expr.op = "Mul"
               /\ update(s.expr.right)
       THEN s.expr.right.left.expr.name
       ELSE ""

\* the registers with an update identity among the emitted statements, in
\* the order of the identities
UpdateOrder ==
    SelectSeq(SeqMap(UpdatedRegister, EmittedPil), LAMBDA n : n # "")

\* the assignment register whose constraint the statement is, "" if it is
\* none: a - (a_const + ...)
ConstrainedRegister(s) ==
    IF /\ s.kind = "PolynomialIdentity"
       /\ s.expr.tag = "BinaryOperation"
       /\ s.expr.op = "Sub"
       /\ s.expr.left.tag = "Reference"
       /\ s.expr.left.name \in NamesOf({"Assignment"})
    THEN s.expr.left.name
    ELSE ""

\* the assignment registers with a constraint among the emitted statements,
\* in the order of the constraints
ConstraintOrder ==
    SelectSeq(SeqMap(ConstrainedRegister, EmittedPil), LAMBDA n : n # "")

\* the witness columns of the final plookup, in its order
PlookupNames == SeqMap(LAMBDA e : e.name, FinalPlookup.left.expressions)

\* the columns of a list that the final plookup holds
Registered(columns) == SelectSeq(columns, LAMBDA n : n \in Range(PlookupNames))

\* the columns of a set, in the order of the final plookup
InPlookupOrder(columns) == SelectSeq(PlookupNames, LAMBDA n : n \in columns)

ReadColumn(a, r) == "read_" \o a \o "_" \o r

WriteColumn(a, w) == "reg_write_" \o a \o "_" \o w

\* C23 as stated: the register update identities, the constraints of the
\* assignment registers and the read_<a>_<r> and reg_write_<a>_<w> column
\* pairs are emitted in the order in which the registers were declared.
C23_DeclarationOrder ==
    Converted =>
        /\ UpdateOrder = InDeclarationOrder(Range(UpdateOrder))
        /\ ConstraintOrder = InDeclarationOrder(Range(ConstraintOrder))
        /\ \A a \in NamesOf({"Assignment"}) :
               /\ InPlookupOrder({ReadColumn(a, r) :
                                     r \in NamesOf({"Write", "Pc", "ReadOnly"})}) =
                      SeqMap(LAMBDA r : ReadColumn(a, r),
                             InDeclarationOrder(NamesOf({"Write", "Pc", "ReadOnly"})))
               /\ InPlookupOrder({WriteColumn(a, w) : w \in NamesOf({"Write"})}) =
                      Registered(SeqMap(LAMBDA w : WriteColumn(a, w),
                                        InDeclarationOrder(NamesOf({"Write"}))))
        /\ \A r \in NamesOf({"Write", "Pc", "ReadOnly"}) :
               InPlookupOrder({ReadColumn(a, r) : a \in NamesOf({"Assignment"})}) =
                   SeqMap(LAMBDA a : ReadColumn(a, r),
                          InDeclarationOrder(NamesOf({"Assignment"})))
        /\ \A w \in NamesOf({"Write"}) :
               InPlookupOrder({WriteColumn(a, w) : a \in NamesOf({"Assignment"})}) =
                   Registered(SeqMap(LAMBDA a : WriteColumn(a, w),
                                     InDeclarationOrder(NamesOf({"Assignment"}))))

\* C23, what the converter does: the register update identities and the
\* constraints of the assignment registers are emitted in the order of the
\* names of the registers; the read_<a>_<r> pairs follow the names of the
\* assignment registers and, for one of them, the names of the write
\* registers, then the pc, then the names of the read-only registers; the
\* reg_write_<a>_<w> pairs follow the declarations of the write registers
\* and, for one of them, the names of the assignment registers.
C23_NameOrder ==
    Converted =>
        /\ UpdateOrder = Sorted(Range(UpdateOrder))
        /\ ConstraintOrder = Sorted(NamesOf({"Assignment"}))
        /\ \A a \in NamesOf({"Assignment"}) :
               /\ InPlookupOrder({ReadColumn(a, r) :
                                     r \in NamesOf({"Write", "Pc", "ReadOnly"})}) =
                      SeqMap(LAMBDA r : ReadColumn(a, r),
                             Sorted(NamesOf({"Write"})) \o Sorted(NamesOf({"Pc"}))
                             \o Sorted(NamesOf({"ReadOnly"})))
               /\ InPlookupOrder({WriteColumn(a, w) : w \in NamesOf({"Write"})}) =
                      Registered(SeqMap(LAMBDA w : WriteColumn(a, w),
                                        InDeclarationOrder(NamesOf({"Write"}))))
        /\ \A r \in NamesOf({"Write", "Pc", "ReadOnly"}) :
               InPlookupOrder({ReadColumn(a, r) : a \in NamesOf({"Assignment"})}) =
                   SeqMap(LAMBDA a : ReadColumn(a, r), Sorted(NamesOf({"Assignment"})))
        /\ \A w \in NamesOf({"Write"}) :
               InPlookupOrder({WriteColumn(a, w) : a \in NamesOf({"Assignment"})}) =
                   Registered(SeqMap(LAMBDA a : WriteColumn(a, w),
                                     Sorted(NamesOf({"Assignment"}))))

\* the machine that declares pc, Z, X, B, A has been converted: the updates
\* are those of A, B, _input_0 and pc and the constraints those of X, Z and
\* _output_0, in these orders, and reg_write_X_B comes before reg_write_X_A
C23_Witness ==
    /\ Converted
    /\ input.registers = ShuffledRegisters
    /\ UpdateOrder = <<"A", "B", "_input_0", "pc">>
    /\ ConstraintOrder = <<"X", "Z", "_output_0">>
    /\ InPlookupOrder({"read_X_A", "read_X_B", "read_Z_A"}) =
           <<"read_X_A", "read_X_B", "read_Z_A">>
    /\ InPlookupOrder({"reg_write_X_A", "reg_write_X_B"}) =
           <<"reg_write_X_B", "reg_write_X_A">>

(***************************************************************************)
(* What convert_machine changes of the machine it is given.                *)
(***************************************************************************)
\* the instructions of a machine whose body is external
ExternalInstructions(m) ==
    SelectSeq(m.instructions, LAMBDA d : d.body.kind = "CallableRef")

\* C30: convert_machine on a machine with a pc only appends to machine.pil:
\* the statements present on entry, the _operation_id column of ROM
\* generation among them, remain an unchanged prefix and the plookup over
\* the registered column pairs is the last statement appended;
\* machine.callable and machine.operation_id are unchanged, machine.links
\* gains one link per instruction with an external body and none for an
\* instruction with a local body, and machine.registers and
\* machine.instructions are emptied.
C30_ConvertMachineOnlyAppends ==
    [][(stage = "rom_generated" /\ stage' = "converted" /\ has_pc(machine)) =>
          LET last == machine'.pil[Len(machine'.pil)]
              external == ExternalInstructions(machine)
          IN /\ Len(machine'.pil) > Len(machine.pil)
             /\ SubSeq(machine'.pil, 1, Len(machine.pil)) = machine.pil
             /\ machine.pil[Len(input.pil) + 1].kind = "PolynomialCommitDeclaration"
             /\ machine.pil[Len(input.pil) + 1].name = "_operation_id"
             /\ last.kind = "PlookupIdentity"
             /\ last.left.expressions = SeqMap(Reference, RegisteredWitnesses)
             /\ last.right.expressions =
                    SeqMap(LAMBDA n : Reference(FixedOf(n)), RegisteredWitnesses)
             /\ \A j \in (Len(machine.pil) + 1)..(Len(machine'.pil) - 1) :
                    machine'.pil[j] # last
             /\ machine'.callable = machine.callable
             /\ machine'.operation_id = machine.operation_id
             /\ Len(machine'.links) = Len(machine.links) + Len(external)
             /\ SubSeq(machine'.links, 1, Len(machine.links)) = machine.links
             /\ \A k \in 1..Len(external) :
                    machine'.links[Len(machine.links) + k] =
                        [flag |-> Reference("instr_" \o external[k].name),
                         inputs |-> external[k].inputs,
                         outputs |-> external[k].outputs,
                         to |-> external[k].body.to]
             /\ machine'.registers = <<>>
             /\ machine'.instructions = <<>>]_vars

\* the machine with a link of its own and the instructions ext (external),
\* assert_zero (local) and mul (external) has been converted: it has three
\* links, the last the one of mul, and neither registers nor instructions
C30_Witness ==
    /\ Converted
    /\ Len(input.links) = 1
    /\ Len(input.instructions) = 3
    /\ Len(ExternalInstructions(input)) = 2
    /\ Len(machine.links) = 3
    /\ machine.links[1] = input.links[1]
    /\ machine.links[3].flag = Reference("instr_mul")
    /\ machine.pil[Len(machine.pil)].kind = "PlookupIdentity"
    /\ machine.registers = <<>>
    /\ machine.instructions = <<>>

(***************************************************************************)
(* The labels of the generated ROM.                                        *)
(***************************************************************************)
BeginsWithUnderscore(name) == Len(name) > 0 /\ SubSeq(name, 1, 1) = "_"

\* the names of the functions of the input
FunctionNames == {input.callable[k].name : k \in 1..FunctionCount}

\* the positions <<function, batch, statement>> of the labels the functions
\* of the input hold
UserLabelPositions ==
    UNION {UNION {{<<k, b, i>> :
                      i \in {j \in 1..Len(input.callable[k].symbol.body[b].statements) :
                                 input.callable[k].symbol.body[b].statements[j].kind
                                     = "Label"}} :
                  b \in 1..BatchCount(k)} :
           k \in 1..FunctionCount}

UserLabelAt(p) == input.callable[p[1]].symbol.body[p[2]].statements[p[3]].name

\* the input has a pc and its function names and user labels are pairwise
\* distinct and do not begin with an underscore
DistinctlyNamed ==
    /\ has_pc(input)
    /\ \A k, l \in 1..FunctionCount :
           input.callable[k].name = input.callable[l].name => k = l
    /\ \A p, q \in UserLabelPositions : UserLabelAt(p) = UserLabelAt(q) => p = q
    /\ \A p \in UserLabelPositions :
           /\ UserLabelAt(p) \notin FunctionNames
           /\ ~BeginsWithUnderscore(UserLabelAt(p))
    /\ \A n \in FunctionNames : ~BeginsWithUnderscore(n)

\* the labels of the ROM are pairwise distinct and the conversion has not
\* failed for a duplicate label
NoDuplicateLabel ==
    /\ RomGenerated => \A l \in RomLabels : Cardinality(LabelPositions(l)) = 1
    /\ panic # "Duplicate label"

\* C28 as stated: for every machine with a pc whose function names and user
\* labels are pairwise distinct and do not begin with an underscore, the
\* labels of the generated ROM are pairwise distinct and the converter's
\* duplicate-label failure does not occur.
C28_DistinctNamesGiveDistinctLabels ==
    DistinctlyNamed => NoDuplicateLabel

\* C28, what holds: the same when, besides, no function is named start or
\* sink; the labels of the ROM are then _start, _sink, one _<f> per function
\* and the user labels.
C28_DistinctNamesButStartAndSink ==
    (DistinctlyNamed /\ FunctionNames \cap {"start", "sink"} = {}) =>
        /\ NoDuplicateLabel
        /\ RomGenerated =>
               RomLabels = {"_start", "_sink"}
                           \cup {"_" \o n : n \in FunctionNames}
                           \cup {UserLabelAt(p) : p \in UserLabelPositions}

\* the conversion of the vm with the one function sink has failed for a
\* duplicate label: the label of the function is the label of the sink
C28_Witness ==
    /\ DistinctlyNamed
    /\ FunctionNames = {"sink"}
    /\ RomGenerated
    /\ Cardinality(LabelPositions("_sink")) = 2
    /\ stage = "aborted"
    /\ panic = "Duplicate label"

\* the vm with a function that holds the labels here and there has been
\* converted
C28_WitnessOfUserLabels ==
    /\ DistinctlyNamed
    /\ stage = "converted"
    /\ RomLabels = {"_start", "_f1", "here", "there", "_sink"}

(***************************************************************************)
(* The code lines of a generated ROM.                                      *)
(***************************************************************************)
\* the generated ROM of the machine has been lowered without a panic
LoweredGenerated == Returned("lower_generated_rom")

\* the indices, from 0, of the code lines that carry the label
LinesCarrying(label) ==
    {i \in 0..(Len(returned[1].code_lines) - 1) :
        label \in returned[1].code_lines[i + 1].labels}

\* the sink id in the hint of the _operation_id column
SinkIdHint == returned[1].machine.pil[Len(returned[1].machine.pil)].def[1].query[2]

\* C27: when the ROM generate_machine_rom produces for a machine with a pc
\* is lowered by the converter, one code line per batch, the index of the
\* code line that carries the label _<f> is the operation id stored for
\* function f, the index of the code line that carries _sink is the sink id
\* of the _operation_id hint, and code line 0 carries _start.
C27_LabelLinesAreOperationIds ==
    LoweredGenerated =>
        LET callable == returned[1].machine.callable
            positions == returned[1].label_positions
        IN /\ Len(returned[1].code_lines) = Len(returned[1].rom[1])
           /\ \A k \in 1..Len(callable) :
                  /\ LinesCarrying("_" \o callable[k].name) = {callable[k].symbol.id[1]}
                  /\ hashmap_get(positions, "_" \o callable[k].name) =
                         callable[k].symbol.id[1]
           /\ LinesCarrying("_sink") = {SinkIdHint}
           /\ hashmap_get(positions, "_sink") = SinkIdHint
           /\ 0 \in LinesCarrying("_start")
           /\ hashmap_get(positions, "_start") = 0

\* the ROM of a machine with two functions, the first of two batches, has
\* been lowered: _f1 is on line 2, _f2 on line 4 and _sink on line 5
C27_Witness ==
    /\ LoweredGenerated
    /\ Len(returned[1].machine.callable) = 2
    /\ returned[1].machine.callable[1].symbol.id = Some(2)
    /\ returned[1].machine.callable[2].symbol.id = Some(4)
    /\ LinesCarrying("_f1") = {2}
    /\ LinesCarrying("_f2") = {4}
    /\ LinesCarrying("_sink") = {5}
    /\ SinkIdHint = 5

====
